---- MODULE Spec2Model ----
(***************************************************************************)
(* A model of scripts/preprocess_wta.py: the chronological feature engine  *)
(* that turns a table of WTA matches into one pre-match feature row per    *)
(* match (Elo ratings, rolling form, head-to-head).                        *)
(*                                                                         *)
(* Representation of values                                                *)
(*   - a nullable number (a pandas cell that may be NaN) is a sequence of  *)
(*     length at most one: NaN is << >>, the number v is <<v>>;            *)
(*   - a text is a sequence of one-character strings;                      *)
(*   - a quotient of two integers (a mean, the head-to-head advantage) is  *)
(*     the exact fraction in lowest terms: float division is correctly     *)
(*     rounded, so equal fractions are equal floats;                       *)
(*   - a rating is the term of float operations that produced it (Base,    *)
(*     Decayed, NewRating1, NewRating2 below): two equal terms denote the  *)
(*     same float.                                                         *)
(***************************************************************************)
EXTENDS Integers, Sequences, FiniteSets, TLC

\* Longest input table explored (number of raw rows), the rows in date order.
MaxMatches == 4

\* Longest input table explored with its rows in any order.
MaxUnsorted == 2

\* Longest input table explored together with a missing column.
\* The most sets in a score token.
MaxSets == 2

\* The bits of the significand of a float (53 in binary64).
Precision == 4

\* The binades below 1.0 the expected scores are drawn from.
ExponentRange == 5

\* The bits a real expectation is known to beyond those a float holds.
ExtraBits == 3

MaxSchemaRows == 1

-----------------------------------------------------------------------------
(* Nullable cells *)

NaN == << >>

Some(v) == <<v>>

IsNull(x) == x = NaN

NotNull(x) == x # NaN

\* a - b on two nullable integers (NaN propagates).
SubInt(a, b) == IF IsNull(a) \/ IsNull(b) THEN NaN ELSE Some(a[1] - b[1])

\* a - b on two nullable floats that are not integers: the operands are kept.
SubFloat(a, b) == IF IsNull(a) \/ IsNull(b) THEN NaN ELSE Some([minuend |-> a[1], subtrahend |-> b[1]])

RECURSIVE Gcd(_, _)
Gcd(a, b) == IF b = 0 THEN a ELSE Gcd(b, a % b)

Abs(n) == IF n < 0 THEN -n ELSE n

\* The float n / d (d > 0), as the fraction in lowest terms.
Quotient(n, d) ==
    LET g == Gcd(Abs(n), d)
    IN  [num |-> n \div g, den |-> d \div g]

Min(a, b) == IF a <= b THEN a ELSE b

Max(a, b) == IF a >= b THEN a ELSE b

RECURSIVE SumSeq(_)
SumSeq(s) == IF s = << >> THEN 0 ELSE Head(s) + SumSeq(Tail(s))

\* r extended (or overwritten) with the fields of s.
With(r, s) == s @@ r

-----------------------------------------------------------------------------
(* Dates: a calendar date is its year and its day of the year (1..366).    *)

NaT == [year |-> 0, doy |-> 0]

Date(y, d) == [year |-> y, doy |-> d]

\* The date's proleptic Gregorian ordinal (the day count that differences of
\* dates are taken on).
Ordinal(d) ==
    LET y == d.year - 1
    IN  365 * y + (y \div 4) - (y \div 100) + (y \div 400) + d.doy

-----------------------------------------------------------------------------
(* PreprocessConfig *)

\* The defaults of the fields the model reads.
DefaultConfig == [min_year |-> 2010, rolling_matches |-> 10, rolling_surface_matches |-> 6]

-----------------------------------------------------------------------------
(* parse_score *)

Digits == <<"0", "1", "2", "3", "4", "5", "6", "7", "8", "9">>

IsDigit(c) == \E i \in 1..Len(Digits) : Digits[i] = c

DigitValue(c) == (CHOOSE i \in 1..Len(Digits) : Digits[i] = c) - 1

IsSpace(c) == c \in {" ", "\t", "\n"}

\* str.lower on the letters the score tokens use.
LowerChar(c) ==
    CASE c = "W" -> "w"
      [] c = "O" -> "o"
      [] c = "A" -> "a"
      [] c = "L" -> "l"
      [] c = "K" -> "k"
      [] c = "V" -> "v"
      [] c = "E" -> "e"
      [] c = "R" -> "r"
      [] c = "T" -> "t"
      [] OTHER -> c

Lower(s) == [i \in 1..Len(s) |-> LowerChar(s[i])]

RECURSIVE LStrip(_)
LStrip(s) == IF s # << >> /\ IsSpace(Head(s)) THEN LStrip(Tail(s)) ELSE s

RECURSIVE RStrip(_)
RStrip(s) == IF s # << >> /\ IsSpace(s[Len(s)]) THEN RStrip(SubSeq(s, 1, Len(s) - 1)) ELSE s

Strip(s) == RStrip(LStrip(s))

\* sub in s
Contains(s, sub) ==
    \E i \in 1..(Len(s) - Len(sub) + 1) : SubSeq(s, i, i + Len(sub) - 1) = sub

\* The first position at or after i that holds no digit.
RECURSIVE DigitRunEnd(_, _)
DigitRunEnd(s, i) == IF i <= Len(s) /\ IsDigit(s[i]) THEN DigitRunEnd(s, i + 1) ELSE i

\* int() of the digits s[i..j-1].
RECURSIVE ToInt(_, _, _)
ToInt(s, i, j) == IF j <= i THEN 0 ELSE 10 * ToInt(s, i, j - 1) + DigitValue(s[j - 1])

\* SCORE_PATTERN.findall(s) from position i: the non-overlapping matches of
\* (\d+)-(\d+), leftmost first, as pairs of integers.
RECURSIVE FindAll(_, _)
FindAll(s, i) ==
    IF i > Len(s) THEN << >>
    ELSE LET j == DigitRunEnd(s, i)
             k == DigitRunEnd(s, j + 1)
         IN  IF j > i /\ j <= Len(s) /\ s[j] = "-" /\ k > j + 1
             THEN <<[left |-> ToInt(s, i, j), right |-> ToInt(s, j + 1, k)]>> \o FindAll(s, k)
             ELSE FindAll(s, i + 1)

\* A cell that holds no text (NaN read from the CSV).
NoText == <<"NaN">>

ZeroScore == [games_1 |-> 0, games_2 |-> 0, sets_1 |-> 0, sets_2 |-> 0, tie_breaks |-> 0]

W_O == <<"w", "/", "o">>

WALKOVER == <<"w", "a", "l", "k", "o", "v", "e", "r">>

RECURSIVE ScoreLoop(_, _)
ScoreLoop(sets, acc) ==
    IF sets = << >> THEN acc
    ELSE LET g1 == Head(sets).left
             g2 == Head(sets).right
         IN  ScoreLoop(Tail(sets),
                 [games_1 |-> acc.games_1 + g1,
                  games_2 |-> acc.games_2 + g2,
                  sets_1 |-> acc.sets_1 + (IF g1 > g2 THEN 1 ELSE 0),
                  sets_2 |-> acc.sets_2 + (IF g1 > g2 THEN 0 ELSE IF g2 > g1 THEN 1 ELSE 0),
                  tie_breaks |-> acc.tie_breaks + (IF Max(g1, g2) >= 7 THEN 1 ELSE 0)])

parse_score(score) ==
    IF score = NoText THEN ZeroScore
    ELSE LET s == Strip(score)
         IN  IF s = << >> \/ Contains(Lower(s), W_O) \/ Contains(Lower(s), WALKOVER)
             THEN ZeroScore
             ELSE ScoreLoop(FindAll(s, 1), ZeroScore)

-----------------------------------------------------------------------------
(* State *)

VARIABLES
    pc,               \* the stage of run_pipeline / preprocess about to run
    error,            \* the exception that ended the run ("" while none)
    config,           \* PreprocessConfig: the two window sizes
    columns,          \* the column names of the input table
    raw,              \* the input table, in file order
    df,               \* preprocess's df: retained rows, sorted, with match_id
    ratings,          \* compute_elo: player -> rating
    surface_ratings,  \* compute_elo: <<player, surface>> -> rating
    last_year,        \* compute_elo: year of the previous row (NaN: None)
    elo_rows,         \* compute_elo: elo_p1, elo_p2, elo_surface_p1, elo_surface_p2
    h2h_wins,         \* compute_head_to_head: <<a, b>> -> wins of a over b
    last_winner,      \* compute_head_to_head: <<a, b>> -> 1 | -1
    h2h_rows,         \* compute_head_to_head: adv_list, last_winner_list
    long_df,          \* expand_long / add_rolling_features: one row per player per match
    wide,             \* aggregate_back: the p1_/p2_ columns and their differences
    out,              \* the rows preprocess returns
    elo_update        \* compute_elo, lines 166-169, in floating point (NaN: none)

vars == <<pc, error, config, columns, raw, df, ratings, surface_ratings, last_year,
          elo_rows, h2h_wins, last_winner, h2h_rows, long_df, wide, out, elo_update>>

elo_vars == <<ratings, surface_ratings, last_year, elo_rows>>

h2h_vars == <<h2h_wins, last_winner, h2h_rows>>

\* A dict with no key.
EmptyDict == [k \in {} |-> 0]

\* An assignment that writes the value to every key of the dict.
PutAll(d, k, v) == [x \in DOMAIN d \cup {k} |-> v]

Put(d, k, v) == [x \in DOMAIN d \cup {k} |-> IF x = k THEN v ELSE d[x]]

Get(d, k, default) == IF k \in DOMAIN d THEN d[k] ELSE default

-----------------------------------------------------------------------------
(* The input table *)

InputColumns ==
    {"tournament", "date", "court", "surface", "round", "best_of",
     "player_1", "player_2", "winner", "score",
     "rank_1", "rank_2", "pts_1", "pts_2", "odd_1", "odd_2"}

\* A player cell that holds no name.
NoPlayer == "NaN"

Players == {"A", "B", "C", "D"}

Surfaces == {"Hard", "Clay"}

\* Python's order on the player names.
PlayerOrder == <<"A", "B", "C", "D">>

PlayerRank(p) == CHOOSE i \in 1..Len(PlayerOrder) : PlayerOrder[i] = p

-----------------------------------------------------------------------------
(* run_pipeline: the difference columns derived from the raw columns *)

DerivedColumns(cols) ==
    (IF "rank_diff" \notin cols /\ {"rank_1", "rank_2"} \subseteq cols THEN {"rank_diff"} ELSE {})
    \cup (IF "pts_diff" \notin cols /\ {"pts_1", "pts_2"} \subseteq cols THEN {"pts_diff"} ELSE {})
    \cup (IF "odd_diff" \notin cols /\ {"odd_1", "odd_2"} \subseteq cols THEN {"odd_diff"} ELSE {})

AddDiffColumns(row) ==
    With(row, [rank_diff |-> SubInt(row.rank_1, row.rank_2),
               pts_diff |-> SubInt(row.pts_1, row.pts_2),
               odd_diff |-> SubFloat(row.odd_1, row.odd_2)])

-----------------------------------------------------------------------------
(* preprocess: filter, sort, match_id, label *)

\* A filter that also removes the rows with a null rank, points or odds cell.
RetainedComplete(row, cfg) ==
    /\ row.player_1 # NoPlayer
    /\ row.player_2 # NoPlayer
    /\ row.date # NaT
    /\ row.date.year >= cfg.min_year
    /\ NotNull(row.rank_diff) /\ NotNull(row.pts_diff) /\ NotNull(row.odd_diff)

Retained(row, cfg) ==
    /\ row.player_1 # NoPlayer
    /\ row.player_2 # NoPlayer
    /\ row.date # NaT
    /\ row.date.year >= cfg.min_year

\* df.sort_values("date"): pandas sorts with kind="quicksort", which is not
\* stable, so rows of equal date may come out in any order.
RECURSIVE DateOrders(_, _)
DateOrders(rows, idx) ==
    IF idx = {} THEN { << >> }
    ELSE LET first == { i \in idx : \A j \in idx : Ordinal(rows[i].date) <= Ordinal(rows[j].date) }
         IN  UNION { { <<rows[i]>> \o rest : rest \in DateOrders(rows, idx \ {i}) } : i \in first }

sort_values(rows) == DateOrders(rows, 1..Len(rows))

\* reset_index, match_id = arange(len(df)), y
Number(rows) ==
    [i \in 1..Len(rows) |->
        With(rows[i], [match_id |-> i - 1,
                       y |-> IF rows[i].winner = rows[i].player_1 THEN 1 ELSE 0])]

-----------------------------------------------------------------------------
(* add_score_features *)

ScoreFeatures(row) ==
    LET parsed == parse_score(IF row.score = NoText THEN << >> ELSE row.score)
    IN  With(row, [p1_games_won |-> parsed.games_1,
                   p2_games_won |-> parsed.games_2,
                   p1_sets_won |-> parsed.sets_1,
                   p2_sets_won |-> parsed.sets_2,
                   tie_breaks_played |-> parsed.tie_breaks,
                   games_delta |-> parsed.games_1 - parsed.games_2,
                   sets_delta |-> parsed.sets_1 - parsed.sets_2])

add_score_features(rows) == [i \in 1..Len(rows) |-> ScoreFeatures(rows[i])]

-----------------------------------------------------------------------------
(* compute_elo: the ratings are terms of the float operations of the code *)

\* 1500.0
Base == [op |-> "1500.0"]

\* 1500.0 + (r - 1500.0) * math.exp(-config.elo_decay * gap)
Decayed(r, gap) == [op |-> "decay", r |-> r, gap |-> gap]

\* 1.0 / (1.0 + 10 ** ((rb - ra) / 400))
Expected(ra, rb) == [op |-> "expected", a |-> ra, b |-> rb]

\* ra + k * (outcome - expected), for expected = Expected(ra, rb): the term
\* holds ra once, inside expected.
NewRating1(k, outcome, expected) ==
    [op |-> "player_1", k |-> k, outcome |-> outcome, expected |-> expected]

\* rb + k * ((1.0 - outcome) - (1.0 - expected)), for expected = Expected(ra, rb)
NewRating2(k, outcome, expected) ==
    [op |-> "player_2", k |-> k, outcome |-> outcome, expected |-> expected]

DecayAll(d, gap) == [k \in DOMAIN d |-> Decayed(d[k], gap)]

\* The ratings to decay before a row of the given year is read.
\* A decay of one year at every year transition, whatever the gap.
YearGapOne(last, year) == IF NotNull(last) /\ year > last[1] THEN 1 ELSE 0

\* A decay of one year at every match after the first.
YearGapAlways(last, year) == IF NotNull(last) THEN 1 ELSE 0

YearGap(last, year) == IF NotNull(last) /\ year > last[1] THEN year - last[1] ELSE 0

\* d[k] on a defaultdict: a missing key is inserted with the default.
\* A read that enters another default than the one asked for.
TouchOther(d, k, default) == IF k \in DOMAIN d THEN d ELSE Put(d, k, [op |-> "0.0"])

\* d[k] on a defaultdict: a key that is missing is entered with the default.
Touch(d, k, default) == IF k \in DOMAIN d THEN d ELSE Put(d, k, default)

\* getattr(row, "surface", "Unknown")
SurfaceOf(row, cols) == IF "surface" \in cols THEN row.surface ELSE "Unknown"

\* One iteration of the loop of compute_elo on the state
\* st = [ratings, surface_ratings, last_year]; the result adds the four
\* values appended to elo_p1, elo_p2, elo_surface_p1, elo_surface_p2.
EloIteration(st, row, cols) ==
    LET year == row.date.year
        gap == YearGap(st.last_year, year)
        dr == IF gap > 0 THEN DecayAll(st.ratings, gap) ELSE st.ratings
        ds == IF gap > 0 THEN DecayAll(st.surface_ratings, gap) ELSE st.surface_ratings
        p1 == row.player_1
        p2 == row.player_2
        surface == SurfaceOf(row, cols)
        rr == Touch(Touch(dr, p1, Base), p2, Base)
        sr == Touch(Touch(ds, <<p1, surface>>, Base), <<p2, surface>>, Base)
        r1 == rr[p1]
        r2 == rr[p2]
        s1 == sr[<<p1, surface>>]
        s2 == sr[<<p2, surface>>]
        expected == Expected(r1, r2)
        outcome == IF row.winner = row.player_1 THEN 1 ELSE 0
        expected_surface == Expected(s1, s2)
    IN  [ratings |->
            Put(Put(rr, p1, NewRating1("elo_k", outcome, expected)),
                p2, NewRating2("elo_k", outcome, expected)),
         surface_ratings |->
            Put(Put(sr, <<p1, surface>>, NewRating1("surface_elo_k", outcome, expected_surface)),
                <<p2, surface>>, NewRating2("surface_elo_k", outcome, expected_surface)),
         last_year |-> Some(year),
         read |-> [elo_p1 |-> r1, elo_p2 |-> r2, surface_elo_p1 |-> s1, surface_elo_p2 |-> s2],
         after_read |-> [ratings |-> rr, surface_ratings |-> sr]]

\* The columns compute_elo adds to a row from the values read for it.
EloColumns(read) ==
    With(read, [elo_diff |-> SubFloat(Some(read.elo_p1), Some(read.elo_p2)),
                surface_elo_diff |-> SubFloat(Some(read.surface_elo_p1), Some(read.surface_elo_p2))])

-----------------------------------------------------------------------------
(* compute_head_to_head *)

\* The loop with adv = wins / total, the share of wins.
H2HIterationWinShare(st, row) ==
    LET p1 == row.player_1
        p2 == row.player_2
        key == <<p1, p2>>
        rev_key == <<p2, p1>>
        hw == Touch(Touch(st.h2h_wins, key, 0), rev_key, 0)
        wins == hw[key]
        losses == hw[rev_key]
        total == wins + losses
        adv == IF total > 0 THEN Quotient(wins, total) ELSE Quotient(0, 1)
        last == Get(st.last_winner, key, 0)
    IN  [h2h_wins |->
            IF row.winner = p1 THEN Put(hw, key, wins + 1) ELSE Put(hw, rev_key, losses + 1),
         last_winner |->
            IF row.winner = p1
            THEN Put(Put(st.last_winner, key, 1), rev_key, -1)
            ELSE Put(Put(st.last_winner, key, -1), rev_key, 1),
         read |-> [h2h_advantage |-> adv,
                   last_winner_indicator |-> IF last = 1 THEN 1 ELSE IF last = -1 THEN -1 ELSE 0]]

\* The loop that stores the direction under key only.
H2HIterationOneWay(st, row) ==
    LET p1 == row.player_1
        p2 == row.player_2
        key == <<p1, p2>>
        rev_key == <<p2, p1>>
        hw == Touch(Touch(st.h2h_wins, key, 0), rev_key, 0)
        wins == hw[key]
        losses == hw[rev_key]
        total == wins + losses
        adv == IF total > 0 THEN Quotient(wins - losses, total) ELSE Quotient(0, 1)
        last == Get(st.last_winner, key, 0)
    IN  [h2h_wins |->
            IF row.winner = p1 THEN Put(hw, key, wins + 1) ELSE Put(hw, rev_key, losses + 1),
         last_winner |->
            IF row.winner = p1
            THEN Put(st.last_winner, key, 1)
            ELSE Put(st.last_winner, key, -1),
         read |-> [h2h_advantage |-> adv,
                   last_winner_indicator |-> IF last = 1 THEN 1 ELSE IF last = -1 THEN -1 ELSE 0]]

\* One iteration of the loop of compute_head_to_head on the state
\* st = [h2h_wins, last_winner]; the result adds the two values appended
\* to adv_list and last_winner_list.
H2HIteration(st, row) ==
    LET p1 == row.player_1
        p2 == row.player_2
        key == <<p1, p2>>
        rev_key == <<p2, p1>>
        hw == Touch(Touch(st.h2h_wins, key, 0), rev_key, 0)
        wins == hw[key]
        losses == hw[rev_key]
        total == wins + losses
        adv == IF total > 0 THEN Quotient(wins - losses, total) ELSE Quotient(0, 1)
        last == Get(st.last_winner, key, 0)
    IN  [h2h_wins |->
            IF row.winner = p1 THEN Put(hw, key, wins + 1) ELSE Put(hw, rev_key, losses + 1),
         last_winner |->
            IF row.winner = p1
            THEN Put(Put(st.last_winner, key, 1), rev_key, -1)
            ELSE Put(Put(st.last_winner, key, -1), rev_key, 1),
         read |-> [h2h_advantage |-> adv,
                   last_winner_indicator |-> IF last = 1 THEN 1 ELSE IF last = -1 THEN -1 ELSE 0]]

-----------------------------------------------------------------------------
(* expand_long *)

\* The columns expand_long asks of df that the input table must bring (the
\* others of common_cols are computed by the earlier stages).
LongColumns == InputColumns \ {"score"}

\* The long rows with the margins of player_1 on both sides.
LongRowUnsigned(row, side) ==
    [match_id |-> row.match_id,
     date |-> row.date,
     surface |-> row.surface,
     player |-> IF side = 1 THEN row.player_1 ELSE row.player_2,
     player_rank |-> IF side = 1 THEN row.rank_1 ELSE row.rank_2,
     player_pts |-> IF side = 1 THEN row.pts_1 ELSE row.pts_2,
     is_player_1 |-> side = 1,
     won |-> IF row.winner = (IF side = 1 THEN row.player_1 ELSE row.player_2) THEN 1 ELSE 0,
     tie_breaks_played |-> row.tie_breaks_played,
     games_delta_signed |-> row.games_delta,
     sets_delta_signed |-> row.sets_delta]

\* The row of `first` (side 1) or of `second` (side 2) for a row of df.
LongRow(row, side) ==
    [match_id |-> row.match_id,
     date |-> row.date,
     surface |-> row.surface,
     player |-> IF side = 1 THEN row.player_1 ELSE row.player_2,
     player_rank |-> IF side = 1 THEN row.rank_1 ELSE row.rank_2,
     player_pts |-> IF side = 1 THEN row.pts_1 ELSE row.pts_2,
     is_player_1 |-> side = 1,
     won |-> IF row.winner = (IF side = 1 THEN row.player_1 ELSE row.player_2) THEN 1 ELSE 0,
     tie_breaks_played |-> row.tie_breaks_played,
     games_delta_signed |-> IF side = 1 THEN row.games_delta ELSE -row.games_delta,
     sets_delta_signed |-> IF side = 1 THEN row.sets_delta ELSE -row.sets_delta]

\* pd.concat([first, second])
expand_long(rows) ==
    [i \in 1..Len(rows) |-> LongRow(rows[i], 1)] \o [i \in 1..Len(rows) |-> LongRow(rows[i], 2)]

-----------------------------------------------------------------------------
(* add_rolling_features *)

\* The order of sort_values(["player", "date", "match_id"], ascending=[True, False, False]).
LongBeforeNewestFirst(a, b) ==
    \/ PlayerRank(a.player) < PlayerRank(b.player)
    \/ /\ a.player = b.player
       /\ \/ Ordinal(a.date) > Ordinal(b.date)
          \/ Ordinal(a.date) = Ordinal(b.date) /\ a.match_id > b.match_id

\* The order of sort_values(["player", "date", "match_id"]).
LongBefore(a, b) ==
    \/ PlayerRank(a.player) < PlayerRank(b.player)
    \/ /\ a.player = b.player
       /\ \/ Ordinal(a.date) < Ordinal(b.date)
          \/ Ordinal(a.date) = Ordinal(b.date) /\ a.match_id < b.match_id

RECURSIVE InsertLong(_, _)
InsertLong(s, x) ==
    IF s = << >> THEN <<x>>
    ELSE IF LongBefore(x, Head(s)) THEN <<x>> \o s
    ELSE <<Head(s)>> \o InsertLong(Tail(s), x)

\* A sort on several columns is stable (lexsort).
RECURSIVE SortLong(_)
SortLong(s) ==
    IF s = << >> THEN << >>
    ELSE InsertLong(SortLong(SubSeq(s, 1, Len(s) - 1)), s[Len(s)])

\* series.shift(n)
Shift(series, n) ==
    [i \in 1..Len(series) |-> IF i - n >= 1 /\ i - n <= Len(series) THEN series[i - n] ELSE NaN]

\* series.expanding(min_periods).mean(): the window never closes.
ExpandingMean(series, window, min_periods) ==
    [i \in 1..Len(series) |->
        LET obs == SelectSeq(SubSeq(series, 1, i), NotNull)
        IN  IF Len(obs) >= min_periods /\ Len(obs) > 0
            THEN Some(Quotient(SumSeq([k \in 1..Len(obs) |-> obs[k][1]]), Len(obs)))
            ELSE NaN]

\* series.rolling(window, min_periods).mean()
RollingMean(series, window, min_periods) ==
    [i \in 1..Len(series) |->
        LET obs == SelectSeq(SubSeq(series, Max(1, i - window + 1), i), NotNull)
        IN  IF Len(obs) >= min_periods /\ Len(obs) > 0
            THEN Some(Quotient(SumSeq([k \in 1..Len(obs) |-> obs[k][1]]), Len(obs)))
            ELSE NaN]

\* _rolling with shift(-1): the window ends one row after the current one.
RollingAhead(series, window, min_periods) == RollingMean(Shift(series, -1), window, min_periods)

\* _rolling without the shift: the window ends at the current row.
RollingNoShift(series, window, min_periods) == RollingMean(series, window, min_periods)

\* _rolling
Rolling(series, window, min_periods) == RollingMean(Shift(series, 1), window, min_periods)

\* A column of integers as a column of cells.
Cells(series) == [i \in 1..Len(series) |-> Some(series[i])]

\* groupby(keys): the places in rows of the group of row i, in row order.
GroupOf(rows, i, keys) ==
    SelectSeq([j \in 1..Len(rows) |-> j], LAMBDA j : \A k \in keys : rows[j][k] = rows[i][k])

\* The series of a column over a group.
Series(rows, group, col) == [k \in 1..Len(group) |-> rows[group[k]][col]]

\* The place of row i in its group.
PlaceIn(group, i) == CHOOSE k \in 1..Len(group) : group[k] = i

\* date.diff().dt.days.shift(0), then fillna(30).clip(0, 60)
\* The days since the previous match with no clip and 0 for a first match.
RestDaysRaw(dates) ==
    [i \in 1..Len(dates) |->
        IF i = 1 THEN 0 ELSE Ordinal(dates[i]) - Ordinal(dates[i - 1])]

\* long_df.groupby("player")["date"].diff().dt.days, fillna(30).clip(0, 60)
RestDays(dates) ==
    [i \in 1..Len(dates) |->
        LET days == IF i = 1 THEN NaN ELSE Some(Ordinal(dates[i]) - Ordinal(dates[i - 1]))
            filled == IF IsNull(days) THEN 30 ELSE days[1]
        IN  Max(0, Min(60, filled))]

\* s.shift(2) - s.shift(3)
TrendOlder(series) ==
    [i \in 1..Len(series) |-> SubInt(Shift(series, 2)[i], Shift(series, 3)[i])]

\* s.shift(1) - s.shift(2)
Trend(series) ==
    [i \in 1..Len(series) |-> SubInt(Shift(series, 1)[i], Shift(series, 2)[i])]

\* The columns add_rolling_features computes for row i of the sorted frame:
\* groupby(...).apply(...) gives each row the value at its place in the
\* series of its group.
RollingColumns(rows, i, cfg) ==
    LET g == GroupOf(rows, i, {"player"})
        at == PlaceIn(g, i)
        gs == GroupOf(rows, i, {"player", "surface"})
    IN  [form_win_rate |->
            Rolling(Cells(Series(rows, g, "won")), cfg.rolling_matches, 3)[at],
         surface_form_win_rate |->
            Rolling(Cells(Series(rows, gs, "won")), cfg.rolling_surface_matches, 2)[PlaceIn(gs, i)],
         games_delta_avg |->
            Rolling(Cells(Series(rows, g, "games_delta_signed")), cfg.rolling_matches, 3)[at],
         sets_delta_avg |->
            Rolling(Cells(Series(rows, g, "sets_delta_signed")), cfg.rolling_matches, 3)[at],
         tiebreak_rate |->
            Rolling(Cells(Series(rows, g, "tie_breaks_played")), cfg.rolling_matches, 3)[at],
         rest_days |-> Some(RestDays(Series(rows, g, "date"))[at]),
         rank_trend |-> Trend(Series(rows, g, "player_rank"))[at],
         points_trend |-> Trend(Series(rows, g, "player_pts"))[at]]

add_rolling_features(long, cfg) ==
    LET rows == SortLong(long)
    IN  SubSeq([i \in 1..Len(rows) |-> With(rows[i], RollingColumns(rows, i, cfg))], 1, Len(rows))

-----------------------------------------------------------------------------
(* aggregate_back *)

\* long_df[is_player_1 == side].set_index("match_id").reindex(df.match_id)
LongOf(long, match_id, is_player_1) ==
    long[CHOOSE i \in 1..Len(long) :
            long[i].match_id = match_id /\ long[i].is_player_1 = is_player_1]

WideRow(p1, p2) ==
    [p1_form |-> p1.form_win_rate, p2_form |-> p2.form_win_rate,
     p1_surface_form |-> p1.surface_form_win_rate, p2_surface_form |-> p2.surface_form_win_rate,
     p1_games_margin |-> p1.games_delta_avg, p2_games_margin |-> p2.games_delta_avg,
     p1_sets_margin |-> p1.sets_delta_avg, p2_sets_margin |-> p2.sets_delta_avg,
     p1_tiebreak_rate |-> p1.tiebreak_rate, p2_tiebreak_rate |-> p2.tiebreak_rate,
     p1_rest_days |-> p1.rest_days, p2_rest_days |-> p2.rest_days,
     p1_rank_trend |-> p1.rank_trend, p2_rank_trend |-> p2.rank_trend,
     p1_points_trend |-> p1.points_trend, p2_points_trend |-> p2.points_trend,
     form_diff |-> SubFloat(p1.form_win_rate, p2.form_win_rate),
     surface_form_diff |-> SubFloat(p1.surface_form_win_rate, p2.surface_form_win_rate),
     games_margin_diff |-> SubFloat(p1.games_delta_avg, p2.games_delta_avg),
     sets_margin_diff |-> SubFloat(p1.sets_delta_avg, p2.sets_delta_avg),
     rest_days_diff |-> SubInt(p1.rest_days, p2.rest_days),
     tiebreak_rate_diff |-> SubFloat(p1.tiebreak_rate, p2.tiebreak_rate),
     rank_trend_diff |-> SubInt(p1.rank_trend, p2.rank_trend),
     points_trend_diff |-> SubInt(p1.points_trend, p2.points_trend)]

aggregate_back(rows, long) ==
    [i \in 1..Len(rows) |->
        WideRow(LongOf(long, rows[i].match_id, TRUE), LongOf(long, rows[i].match_id, FALSE))]

-----------------------------------------------------------------------------
(* preprocess: dropna and the columns kept *)

numeric_diff_cols ==
    <<"rank_diff", "pts_diff", "odd_diff", "elo_diff", "surface_elo_diff", "form_diff",
      "surface_form_diff", "games_margin_diff", "sets_margin_diff", "rest_days_diff",
      "tiebreak_rate_diff", "rank_trend_diff", "points_trend_diff", "h2h_advantage",
      "last_winner_indicator">>

\* The difference columns of one row of df after every pass, as cells.
DiffCells(row, elo, h2h, w) ==
    [rank_diff |-> row.rank_diff,
     pts_diff |-> row.pts_diff,
     odd_diff |-> row.odd_diff,
     elo_diff |-> EloColumns(elo).elo_diff,
     surface_elo_diff |-> EloColumns(elo).surface_elo_diff,
     form_diff |-> w.form_diff,
     surface_form_diff |-> w.surface_form_diff,
     games_margin_diff |-> w.games_margin_diff,
     sets_margin_diff |-> w.sets_margin_diff,
     rest_days_diff |-> w.rest_days_diff,
     tiebreak_rate_diff |-> w.tiebreak_rate_diff,
     rank_trend_diff |-> w.rank_trend_diff,
     points_trend_diff |-> w.points_trend_diff,
     h2h_advantage |-> Some(h2h.h2h_advantage),
     last_winner_indicator |-> Some(h2h.last_winner_indicator)]

\* present_numeric
PresentNumeric(cols) ==
    SelectSeq(numeric_diff_cols,
              LAMBDA c : c \notin {"rank_diff", "pts_diff", "odd_diff"} \/ c \in cols)

\* dropna(how="all"): a row goes only when every cell is null.
KeptUnlessAllNull(features) == \E c \in DOMAIN features : NotNull(features[c])

\* dropna(subset=present_numeric, how="any") keeps the row with these cells.
Kept(features) == \A c \in DOMAIN features : NotNull(features[c])

\* df[keep_columns] for one row; index is the row's label in the frame
\* (its match_id, which dropna leaves in place).
OutputRow(row, cells, cols) ==
    [index |-> row.match_id,
     date |-> row.date, surface |-> row.surface,
     player_1 |-> row.player_1, player_2 |-> row.player_2,
     winner |-> row.winner, score |-> row.score,
     y |-> row.y, year |-> row.date.year,
     features |-> [c \in {PresentNumeric(cols)[k] : k \in 1..Len(PresentNumeric(cols))} |-> cells[c]]]

-----------------------------------------------------------------------------
(* The inputs explored *)

\* Score tokens.
Score_64_63 == <<"6", "-", "4", " ", "6", "-", "3">>

Score_67_76_57 == <<"6", "-", "7", "(", "5", ")", " ", "7", "-", "6", " ", "5", "-", "7">>

Score_WO == <<"W", "/", "O">>

Row(date, surface, p1, p2, winner, score, rank_1, rank_2, pts_1, pts_2, odd_1, odd_2) ==
    [date |-> date, surface |-> surface, player_1 |-> p1, player_2 |-> p2,
     winner |-> winner, score |-> score, rank_1 |-> rank_1, rank_2 |-> rank_2,
     pts_1 |-> pts_1, pts_2 |-> pts_2, odd_1 |-> odd_1, odd_2 |-> odd_2]

\* The matches the input tables are made of, in date order.
MatchRows ==
    << Row(Date(2010, 10), "Hard", "A", "B", "A", Score_64_63,
          Some(5), Some(9), Some(900), Some(400), Some(150), Some(250)),
      Row(Date(2010, 10), "Clay", "B", "A", "A", Score_67_76_57,
          Some(10), Some(4), Some(380), Some(1000), Some(260), Some(150)),
      Row(Date(2010, 40), "Hard", "B", "A", "B", Score_64_63,
          Some(8), Some(6), Some(450), Some(800), Some(200), Some(180)),
      Row(Date(2010, 205), "Hard", "A", "C", "C", Score_WO,
          Some(7), NaN, Some(720), NaN, Some(110), Some(600)),
      Row(Date(2011, 5), "Hard", "A", "B", "A", Score_64_63,
          Some(3), Some(11), Some(1200), Some(350), Some(130), Some(310)),
      Row(Date(2011, 6), "Hard", "C", "B", "B", NoText,
          Some(40), Some(11), Some(90), Some(350), NaN, NaN),
      Row(Date(2011, 30), "Clay", "B", "A", "B", Score_64_63,
          Some(13), Some(2), Some(280), Some(1500), Some(330), Some(120)),
      Row(Date(2013, 40), "Hard", "A", "B", "B", Score_67_76_57,
          Some(1), Some(15), Some(2000), Some(250), Some(105), Some(700)) >>

\* Twelve matches of A on one surface, twenty days apart, against B and C in
\* turn and listed either way round: more matches than rolling_matches holds.
SeasonTable ==
    [i \in 1..12 |->
        LET a == [name |-> "A", rank |-> Some(1 + ((i * i) % 7)),
                  pts |-> Some(1000 - 37 * ((i * i) % 7)), odd |-> Some(150)]
            b == [name |-> IF i % 2 = 1 THEN "B" ELSE "C", rank |-> Some(10 + ((3 * i) % 5)),
                  pts |-> Some(400 - 11 * ((3 * i) % 5)), odd |-> Some(250)]
            p1 == IF i % 4 \in {1, 2} THEN a ELSE b
            p2 == IF i % 4 \in {1, 2} THEN b ELSE a
        IN  Row(Date(2010, 20 * i), "Hard", p1.name, p2.name,
                IF i \in {3, 4, 5, 10, 11, 12} THEN b.name ELSE a.name,
                IF i % 3 = 0 THEN Score_67_76_57 ELSE Score_64_63,
                p1.rank, p2.rank, p1.pts, p2.pts, p1.odd, p2.odd)]

\* Rows that preprocess filters out: before min_year, no date, no player.
DirtyRows ==
    { Row(Date(2009, 360), "Hard", "A", "B", "A", Score_64_63,
          Some(5), Some(9), Some(900), Some(400), Some(150), Some(250)),
      Row(NaT, "Hard", "A", "B", "A", Score_64_63,
          Some(5), Some(9), Some(900), Some(400), Some(150), Some(250)),
      Row(Date(2010, 10), "Hard", NoPlayer, "B", "B", Score_64_63,
          NaN, Some(9), NaN, Some(400), Some(150), Some(250)) }

Tables(rows, n) == UNION { [1..k -> rows] : k \in 0..n }

Range(f) == { f[i] : i \in DOMAIN f }

\* The tables in date order, one file order for each choice of rows:
\* sort_values returns every order of the rows of one date, so the other
\* file orders add nothing behind the sort.
ChronologicalTables ==
    { [i \in DOMAIN pick |-> MatchRows[pick[i]]] :
        pick \in { q \in Tables(DOMAIN MatchRows, MaxMatches) :
                     \A i \in 1..(Len(q) - 1) : q[i] <= q[i + 1] } }

\* Matches of one year on two courts: A with B, C with D.
CourtRows ==
    << MatchRows[1],
       Row(Date(2010, 20), "Clay", "C", "D", "D", Score_64_63,
           Some(30), Some(21), Some(120), Some(200), Some(210), Some(170)),
       MatchRows[3],
       Row(Date(2010, 60), "Hard", "D", "C", "D", Score_67_76_57,
           Some(20), Some(31), Some(210), Some(115), Some(140), Some(290)) >>

\* The tables of two or more of them, in date order.
CourtTables ==
    { [i \in DOMAIN pick |-> CourtRows[pick[i]]] :
        pick \in { q \in Tables(DOMAIN CourtRows, Len(CourtRows)) :
                     Len(q) >= 2 /\ \A i \in 1..(Len(q) - 1) : q[i] < q[i + 1] } }

\* What the winner cell of a row may hold: either player, the name of
\* somebody else, or nothing.
WinnerCells == {"A", "B", "C", NoPlayer}

\* Three matches of A and B with any winner cell each.
AnyWinnerTables ==
    { << With(MatchRows[1], [winner |-> w[1]]),
         With(MatchRows[3], [winner |-> w[2]]),
         With(MatchRows[5], [winner |-> w[3]]) >> : w \in [1..3 -> WinnerCells] }

\* The tables in any order, with rows to filter out.
UnsortedTables == Tables({MatchRows[i] : i \in 1..4} \cup DirtyRows, MaxUnsorted)

\* The tables read with a column missing.
SchemaTables == Tables({MatchRows[i] : i \in 1..4}, MaxSchemaRows)

Configs ==
    { DefaultConfig,
      [min_year |-> 2010, rolling_matches |-> 3, rolling_surface_matches |-> 2] }

\* Column sets with one column missing.
BrokenSchemas == { InputColumns \ {c} : c \in {"date", "score", "surface", "rank_1"} }

\* The sets a score token is written from: the text of a set and the games
\* of the two sides in it.
SetScores ==
    { [text |-> <<"6", "-", "4">>, left |-> 6, right |-> 4],
      [text |-> <<"3", "-", "6">>, left |-> 3, right |-> 6],
      [text |-> <<"7", "-", "6", "(", "5", ")">>, left |-> 7, right |-> 6],
      [text |-> <<"1", "0", "-", "1", "2">>, left |-> 10, right |-> 12],
      [text |-> <<"2", "-", "2">>, left |-> 2, right |-> 2] }

\* How a token ends: a match played out, a retirement, a walkover.
Endings ==
    { [kind |-> "played", text |-> << >>],
      [kind |-> "retired", text |-> <<" ", "R", "E", "T">>],
      [kind |-> "retired", text |-> <<" ", "r", "e", "t", ".">>],
      [kind |-> "walkover", text |-> <<" ", "W", "/", "O">>],
      [kind |-> "walkover", text |-> <<" ", "W", "a", "l", "k", "o", "v", "e", "r", " ">>] }

RECURSIVE Join(_)
Join(sets) ==
    IF sets = << >> THEN << >>
    ELSE IF Len(sets) = 1 THEN sets[1].text
    ELSE sets[1].text \o <<" ">> \o Join(Tail(sets))

\* The text of the sets with the ending.
Render(sets, ending) == Join(sets) \o ending.text

SetLists == Tables(SetScores, MaxSets)

ScoreTokens == { Render(sets, ending) : sets \in SetLists, ending \in Endings } \cup {NoText}

\* The tables of one match with any of the score tokens.
ScoreTables == { <<With(MatchRows[1], [score |-> t])>> : t \in ScoreTokens }

-----------------------------------------------------------------------------
(* compute_elo, lines 166-169, in floating point: a float is m * 2^x with  *)
(* a significand m of at most Precision bits, and every operation rounds   *)
(* its exact result to the nearest float, ties to even.                    *)

RECURSIVE BitLength(_)
BitLength(n) == IF n = 0 THEN 0 ELSE 1 + BitLength(n \div 2)

\* The same value with an odd significand.
RECURSIVE Normal(_)
Normal(f) ==
    IF f.m = 0 THEN [m |-> 0, x |-> 0]
    ELSE IF f.m % 2 = 0 THEN Normal([m |-> f.m \div 2, x |-> f.x + 1])
    ELSE f

\* The float nearest to m * 2^x, ties to even.
Round(f) ==
    LET a == Abs(f.m)
        t == BitLength(a) - Precision
    IN  IF t <= 0 THEN Normal(f)
        ELSE LET q == a \div (2 ^ t)
                 r == a % (2 ^ t)
                 half == 2 ^ (t - 1)
                 n == IF r > half \/ (r = half /\ q % 2 = 1) THEN q + 1 ELSE q
             IN  Normal([m |-> IF f.m < 0 THEN -n ELSE n, x |-> f.x + t])

\* a - b and a + b with no rounding.
ExactSub(a, b) ==
    LET x == Min(a.x, b.x)
    IN  Normal([m |-> a.m * (2 ^ (a.x - x)) - b.m * (2 ^ (b.x - x)), x |-> x])

ExactAdd(a, b) == ExactSub(a, [m |-> -b.m, x |-> b.x])

\* a - b
FloatSub(a, b) == Round(ExactSub(a, b))

\* a * b
FloatMul(a, b) == Round([m |-> a.m * b.m, x |-> a.x + b.x])

\* 0.0, 1.0 and config.elo_k = 32.0
Zero == [m |-> 0, x |-> 0]

One == [m |-> 1, x |-> 0]

elo_k == [m |-> 1, x |-> 5]

\* The amount with the sign turned.
Negated(a) == [m |-> -a.m, x |-> a.x]

\* config.elo_k * (outcome - expected)
Amount1(k, outcome, expected) == FloatMul(k, FloatSub(outcome, expected))

\* The amount of player_2 as the negative of the amount of player_1.
Amount2Negated(k, outcome, expected) == Negated(Amount1(k, outcome, expected))

\* config.elo_k * ((1.0 - outcome) - (1.0 - expected))
Amount2(k, outcome, expected) ==
    FloatMul(k, FloatSub(FloatSub(One, outcome), FloatSub(One, expected)))

\* The floats of full precision in [2^-ExponentRange, 1): the values
\* expected = 1.0 / (1.0 + 10 ** ((r2 - r1) / 400)) may take.
Expectations ==
    { Normal([m |-> m, x |-> -(Precision + s)]) :
        m \in (2 ^ (Precision - 1))..(2 ^ Precision - 1), s \in 0..(ExponentRange - 1) }

\* a + b
FloatAdd(a, b) == Round(ExactAdd(a, b))

\* ratings[p1] = r1 + config.elo_k * (outcome - expected)
Updated1(r, k, outcome, expected) == FloatAdd(r, Amount1(k, outcome, expected))

\* ratings[p2] = r2 + config.elo_k * ((1.0 - outcome) - (1.0 - expected))
Updated2(r, k, outcome, expected) == FloatAdd(r, Amount2(k, outcome, expected))

\* The real values of 1 / (1 + 10^((r2 - r1) / 400)), in steps of
\* 2^-(Precision + ExtraBits); expected is the float nearest to one of them,
\* and the expected of the mirrored row the float nearest to its complement.
LogisticValues ==
    { Normal([m |-> m, x |-> -(Precision + ExtraBits)]) :
        m \in 1..(2 ^ (Precision + ExtraBits) - 1) }

\* The ratings r1 and r2 the update starts from.
RatingFloats == { [m |-> m, x |-> 2] : m \in {9, 11, 13, 15} }

-----------------------------------------------------------------------------
(* Init and the stages *)

Init ==
    /\ pc = "run_pipeline"
    /\ error = ""
    /\ \/ columns = InputColumns /\ config \in Configs /\ raw \in ChronologicalTables
       \/ columns = InputColumns /\ config = DefaultConfig /\ raw \in UnsortedTables
       \/ columns = InputColumns /\ config = DefaultConfig /\ raw = SeasonTable
       \/ columns = InputColumns /\ config = DefaultConfig /\ raw \in ScoreTables
       \/ columns = InputColumns /\ config = DefaultConfig /\ raw \in CourtTables
       \/ columns \in BrokenSchemas /\ config = DefaultConfig /\ raw \in SchemaTables
    /\ df = << >>
    /\ ratings = EmptyDict
    /\ surface_ratings = EmptyDict
    /\ last_year = NaN
    /\ elo_rows = << >>
    /\ h2h_wins = EmptyDict
    /\ last_winner = EmptyDict
    /\ h2h_rows = << >>
    /\ long_df = << >>
    /\ wide = << >>
    /\ out = << >>
    /\ elo_update = NaN

\* run_pipeline, lines 486-495: load the table, derive the raw differences,
\* call preprocess.
RunPipeline ==
    /\ pc = "run_pipeline"
    /\ df' = [i \in 1..Len(raw) |-> AddDiffColumns(raw[i])]
    /\ columns' = columns \cup DerivedColumns(columns)
    /\ pc' = "preprocess"
    /\ UNCHANGED <<elo_update, error, config, raw, elo_vars, h2h_vars, long_df, wide, out>>

Abort(exception) ==
    /\ error' = exception
    /\ pc' = "error"
    /\ UNCHANGED <<elo_update, config, columns, raw, df, elo_vars, h2h_vars, long_df, wide, out>>

\* preprocess, lines 403-406
CheckRequired ==
    /\ pc = "preprocess"
    /\ IF {"player_1", "player_2", "winner", "date"} \subseteq columns
       THEN /\ pc' = "filter"
            /\ UNCHANGED <<elo_update, error, config, columns, raw, df, elo_vars, h2h_vars, long_df, wide, out>>
       ELSE Abort("KeyError: Dataset missing required columns")

\* preprocess, lines 408-418
FilterSort ==
    /\ pc = "filter"
    /\ \E sorted \in sort_values(SelectSeq(df, LAMBDA r : Retained(r, config))) :
          df' = Number(sorted)
    /\ pc' = "score"
    /\ UNCHANGED <<elo_update, error, config, columns, raw, elo_vars, h2h_vars, long_df, wide, out>>

\* preprocess, line 420
AddScoreFeatures ==
    /\ pc = "score"
    /\ IF "score" \in columns
       THEN /\ df' = add_score_features(df)
            /\ pc' = "elo"
            /\ UNCHANGED <<elo_update, error, config, columns, raw, elo_vars, h2h_vars, long_df, wide, out>>
       ELSE Abort("AttributeError: 'NoneType' object has no attribute 'fillna'")

\* compute_elo, lines 146-173: one iteration of the loop
EloStep ==
    /\ pc = "elo"
    /\ Len(elo_rows) < Len(df)
    /\ LET it == EloIteration([ratings |-> ratings, surface_ratings |-> surface_ratings,
                               last_year |-> last_year],
                              df[Len(elo_rows) + 1], columns)
       IN  /\ ratings' = it.ratings
           /\ surface_ratings' = it.surface_ratings
           /\ last_year' = it.last_year
           /\ elo_rows' = Append(elo_rows, it.read)
    /\ UNCHANGED <<elo_update, pc, error, config, columns, raw, df, h2h_vars, long_df, wide, out>>

\* compute_elo, lines 175-182
EloDone ==
    /\ pc = "elo"
    /\ Len(elo_rows) = Len(df)
    /\ pc' = "h2h"
    /\ UNCHANGED <<elo_update, error, config, columns, raw, df, elo_vars, h2h_vars, long_df, wide, out>>

\* compute_head_to_head, lines 362-382: one iteration of the loop
H2HStep ==
    /\ pc = "h2h"
    /\ Len(h2h_rows) < Len(df)
    /\ LET it == H2HIteration([h2h_wins |-> h2h_wins, last_winner |-> last_winner],
                              df[Len(h2h_rows) + 1])
       IN  /\ h2h_wins' = it.h2h_wins
           /\ last_winner' = it.last_winner
           /\ h2h_rows' = Append(h2h_rows, it.read)
    /\ UNCHANGED <<elo_update, pc, error, config, columns, raw, df, elo_vars, long_df, wide, out>>

\* compute_head_to_head, lines 384-387
H2HDone ==
    /\ pc = "h2h"
    /\ Len(h2h_rows) = Len(df)
    /\ pc' = "expand_long"
    /\ UNCHANGED <<elo_update, error, config, columns, raw, df, elo_vars, h2h_vars, long_df, wide, out>>

\* preprocess, line 424
ExpandLong ==
    /\ pc = "expand_long"
    /\ IF LongColumns \subseteq columns
       THEN /\ long_df' = expand_long(df)
            /\ pc' = "rolling"
            /\ UNCHANGED <<elo_update, error, config, columns, raw, df, elo_vars, h2h_vars, wide, out>>
       ELSE Abort("KeyError: Missing columns required for long expansion")

\* preprocess, line 425
AddRollingFeatures ==
    /\ pc = "rolling"
    /\ long_df' = add_rolling_features(long_df, config)
    /\ pc' = "aggregate"
    /\ UNCHANGED <<elo_update, error, config, columns, raw, df, elo_vars, h2h_vars, wide, out>>

\* preprocess, line 426
AggregateBack ==
    /\ pc = "aggregate"
    /\ wide' = aggregate_back(df, long_df)
    /\ pc' = "dropna"
    /\ UNCHANGED <<elo_update, error, config, columns, raw, df, elo_vars, h2h_vars, long_df, out>>

\* preprocess, lines 428-476
DropNa ==
    /\ pc = "dropna"
    /\ LET rows == [i \in 1..Len(df) |->
                       OutputRow(df[i], DiffCells(df[i], elo_rows[i], h2h_rows[i], wide[i]), columns)]
       IN  out' = SelectSeq(rows, LAMBDA r : Kept(r.features))
    /\ pc' = "done"
    /\ UNCHANGED <<elo_update, error, config, columns, raw, df, elo_vars, h2h_vars, long_df, wide>>

Next ==
    \/ RunPipeline
    \/ CheckRequired
    \/ FilterSort
    \/ AddScoreFeatures
    \/ EloStep
    \/ EloDone
    \/ H2HStep
    \/ H2HDone
    \/ ExpandLong
    \/ AddRollingFeatures
    \/ AggregateBack
    \/ DropNa

Spec == Init /\ [][Next]_vars

-----------------------------------------------------------------------------
(* One rating update in floating point *)

UpdateInit ==
    /\ pc = "elo_update"
    /\ error = ""
    /\ columns = InputColumns
    /\ config = DefaultConfig
    /\ raw = << >>
    /\ df = << >>
    /\ ratings = EmptyDict
    /\ surface_ratings = EmptyDict
    /\ last_year = NaN
    /\ elo_rows = << >>
    /\ h2h_wins = EmptyDict
    /\ last_winner = EmptyDict
    /\ h2h_rows = << >>
    /\ long_df = << >>
    /\ wide = << >>
    /\ out = << >>
    /\ \E outcome \in {Zero, One} : \E expected \in Expectations :
          elo_update = Some([outcome |-> outcome, expected |-> expected,
                             amount_1 |-> NaN, amount_2 |-> NaN])

\* compute_elo, lines 168-169: the amounts added to ratings[p1] and ratings[p2]
ApplyUpdate ==
    /\ pc = "elo_update"
    /\ LET u == elo_update[1]
       IN  elo_update' = Some([u EXCEPT !.amount_1 = Some(Amount1(elo_k, u.outcome, u.expected)),
                                        !.amount_2 = Some(Amount2(elo_k, u.outcome, u.expected))])
    /\ pc' = "updated"
    /\ UNCHANGED <<error, config, columns, raw, df, elo_vars, h2h_vars, long_df, wide, out>>

UpdateNext == ApplyUpdate

UpdateSpec == UpdateInit /\ [][UpdateNext]_vars

-----------------------------------------------------------------------------
(* The pipeline on tables whose winner cell is not checked against the     *)
(* players: preprocess drops rows on player_1, player_2 and date only.     *)

AnyWinnerInit ==
    /\ pc = "run_pipeline"
    /\ error = ""
    /\ columns = InputColumns
    /\ config = DefaultConfig
    /\ raw \in AnyWinnerTables
    /\ df = << >>
    /\ ratings = EmptyDict
    /\ surface_ratings = EmptyDict
    /\ last_year = NaN
    /\ elo_rows = << >>
    /\ h2h_wins = EmptyDict
    /\ last_winner = EmptyDict
    /\ h2h_rows = << >>
    /\ long_df = << >>
    /\ wide = << >>
    /\ out = << >>
    /\ elo_update = NaN

AnyWinnerSpec == AnyWinnerInit /\ [][Next]_vars

-----------------------------------------------------------------------------
(* A row and the same row listed the other way round: the pipeline on the  *)
(* tables, and lines 166-169 of compute_elo in floating point on a row of  *)
(* players a (player_1) and b and on the row of b (player_1) and a.        *)

MirrorInit ==
    /\ error = ""
    /\ columns = InputColumns
    /\ config = DefaultConfig
    /\ df = << >>
    /\ ratings = EmptyDict
    /\ surface_ratings = EmptyDict
    /\ last_year = NaN
    /\ elo_rows = << >>
    /\ h2h_wins = EmptyDict
    /\ last_winner = EmptyDict
    /\ h2h_rows = << >>
    /\ long_df = << >>
    /\ wide = << >>
    /\ out = << >>
    /\ \/ /\ pc = "run_pipeline"
          /\ raw \in ChronologicalTables \cup {SeasonTable}
          /\ elo_update = NaN
       \/ /\ pc = "elo_mirror"
          /\ raw = << >>
          /\ \E outcome \in {Zero, One} : \E value \in LogisticValues :
             \E ra \in RatingFloats : \E rb \in RatingFloats :
                elo_update = Some([outcome |-> outcome, value |-> value, ra |-> ra, rb |-> rb,
                                   as_listed |-> NaN, mirrored |-> NaN])

\* Lines 166-169 on the row (a, b) with the outcome for a, and on the row
\* (b, a) with the same winner.
ApplyMirror ==
    /\ pc = "elo_mirror"
    /\ LET u == elo_update[1]
           expected == Round(u.value)
           mirror_expected == Round(ExactSub(One, u.value))
           mirror_outcome == FloatSub(One, u.outcome)
       IN  elo_update' =
              Some([u EXCEPT
                      !.as_listed = Some([a |-> Updated1(u.ra, elo_k, u.outcome, expected),
                                          b |-> Updated2(u.rb, elo_k, u.outcome, expected),
                                          expected |-> expected]),
                      !.mirrored = Some([b |-> Updated1(u.rb, elo_k, mirror_outcome, mirror_expected),
                                         a |-> Updated2(u.ra, elo_k, mirror_outcome, mirror_expected),
                                         expected |-> mirror_expected])])
    /\ pc' = "mirrored"
    /\ UNCHANGED <<error, config, columns, raw, df, elo_vars, h2h_vars, long_df, wide, out>>

MirrorNext == Next \/ ApplyMirror

MirrorSpec == MirrorInit /\ [][MirrorNext]_vars

-----------------------------------------------------------------------------
(* The passes as functions of the table they are given *)

\* compute_elo on the rows: the final state and the values read per row.
RECURSIVE compute_elo(_, _)
compute_elo(rows, cols) ==
    IF rows = << >>
    THEN [ratings |-> EmptyDict, surface_ratings |-> EmptyDict, last_year |-> NaN, rows |-> << >>]
    ELSE LET before == compute_elo(SubSeq(rows, 1, Len(rows) - 1), cols)
             it == EloIteration(before, rows[Len(rows)], cols)
         IN  [ratings |-> it.ratings, surface_ratings |-> it.surface_ratings,
              last_year |-> it.last_year, rows |-> Append(before.rows, it.read)]

\* compute_head_to_head on the rows.
RECURSIVE compute_head_to_head(_)
compute_head_to_head(rows) ==
    IF rows = << >>
    THEN [h2h_wins |-> EmptyDict, last_winner |-> EmptyDict, rows |-> << >>]
    ELSE LET before == compute_head_to_head(SubSeq(rows, 1, Len(rows) - 1))
             it == H2HIteration(before, rows[Len(rows)])
         IN  [h2h_wins |-> it.h2h_wins, last_winner |-> it.last_winner,
              rows |-> Append(before.rows, it.read)]

\* Lines 421-426 of preprocess on the rows: per row, what the three passes
\* computed for it.
Passes(rows, cols, cfg) ==
    LET elo == compute_elo(rows, cols).rows
        h2h == compute_head_to_head(rows).rows
        w == aggregate_back(rows, add_rolling_features(expand_long(rows), cfg))
    IN  [i \in 1..Len(rows) |-> [elo |-> elo[i], h2h |-> h2h[i], wide |-> w[i]]]

-----------------------------------------------------------------------------
(* What the run has computed for row i of df *)

Computed(i) == [elo |-> elo_rows[i], h2h |-> h2h_rows[i], wide |-> wide[i]]

\* The players of a row.
PlayersOf(row) == {row.player_1, row.player_2}

ReplaceAt(rows, i, r) == SubSeq(rows, 1, i - 1) \o <<r>> \o SubSeq(rows, i + 1, Len(rows))

-----------------------------------------------------------------------------
(* C1: truncation invariance.  When the run is done, what it computed for  *)
(* every row i (the ratings and surface ratings read, the form, surface    *)
(* form, margins, tie-break rate, rest days, trends, head-to-head          *)
(* advantage and last-winner indicator) is what the three passes compute   *)
(* for row i when they are given the first i rows only.                    *)

TruncationInvariance ==
    pc = "done" =>
        \A i \in 1..Len(df) : Passes(SubSeq(df, 1, i), columns, config)[i] = Computed(i)

\* A finished run in which a row with a surface form is followed by a later
\* match of one of its players.
TruncationWitness ==
    /\ pc = "done"
    /\ \E i \in 1..(Len(df) - 1) :
          /\ NotNull(wide[i].surface_form_diff)
          /\ PlayersOf(df[i + 1]) \cap PlayersOf(df[i]) # {}

-----------------------------------------------------------------------------
(* C2: no self-leakage.  When the run is done, what it computed for every  *)
(* row i is what the three passes compute for row i on the table in which  *)
(* only the winner and the score of row i are changed (the label y and the *)
(* score columns of row i change with them).                               *)

\* Another score than the row's.
OtherScore(row) == IF row.score = Score_WO THEN Score_67_76_57 ELSE Score_WO

OtherWinner(row) == IF row.winner = row.player_1 THEN row.player_2 ELSE row.player_1

\* Row `row` of df with another winner and score.
WithOutcome(row, winner, score) ==
    ScoreFeatures(With(row, [winner |-> winner, score |-> score,
                             y |-> IF winner = row.player_1 THEN 1 ELSE 0]))

\* The rows that differ from `row` in the winner, in the score, or in both.
OtherOutcomes(row) ==
    { WithOutcome(row, OtherWinner(row), row.score),
      WithOutcome(row, row.winner, OtherScore(row)),
      WithOutcome(row, OtherWinner(row), OtherScore(row)) }

\* C2: no feature of a row depends on the outcome or the score of that row.
NoSelfLeakage ==
    pc = "done" =>
        \A i \in 1..Len(df) : \A other \in OtherOutcomes(df[i]) :
            Passes(ReplaceAt(df, i, other), columns, config)[i] = Computed(i)

\* A finished run with a row that has a form, a surface form and a
\* head-to-head history, so that an outcome read too early would show.
NoSelfLeakageWitness ==
    /\ pc = "done"
    /\ \E i \in 1..Len(df) :
          /\ NotNull(wide[i].form_diff)
          /\ NotNull(wide[i].surface_form_diff)
          /\ h2h_rows[i].last_winner_indicator # 0
          /\ Cardinality(OtherOutcomes(df[i]) \ {df[i]}) = 3

-----------------------------------------------------------------------------
(* C3: every retained match is consumed once, in ascending date order, and *)
(* two matches of one date are processed, and numbered, in the order of    *)
(* the input: the step that sorts leaves the stable sort of the retained   *)
(* rows.                                                                   *)

RECURSIVE InsertByDate(_, _)
InsertByDate(s, x) ==
    IF s = << >> THEN <<x>>
    ELSE IF Ordinal(x.date) < Ordinal(Head(s).date) THEN <<x>> \o s
    ELSE <<Head(s)>> \o InsertByDate(Tail(s), x)

RECURSIVE StableByDate(_)
StableByDate(rows) ==
    IF rows = << >> THEN << >>
    ELSE InsertByDate(StableByDate(SubSeq(rows, 1, Len(rows) - 1)), rows[Len(rows)])

\* C3: rows of one date are processed and numbered in input order.
InputOrderOnTies ==
    [][pc = "filter" =>
          df' = Number(StableByDate(SelectSeq(df, LAMBDA r : Retained(r, config))))]_vars

-----------------------------------------------------------------------------
(* C4: when the run is done, a row of df is in the output exactly when     *)
(* none of its difference features is null, that is when its raw           *)
(* differences are there and both players have every history feature; and  *)
(* an emitted row carries the differences of the values computed, with no  *)
(* value put in the place of a null.                                       *)

\* The per-player columns that are null while the history is too short, and
\* the difference column of each.
HistoryColumns ==
    { <<"form_win_rate", "form_diff">>,
      <<"surface_form_win_rate", "surface_form_diff">>,
      <<"games_delta_avg", "games_margin_diff">>,
      <<"sets_delta_avg", "sets_margin_diff">>,
      <<"tiebreak_rate", "tiebreak_rate_diff">> }

TrendColumns ==
    { <<"rank_trend", "rank_trend_diff">>, <<"points_trend", "points_trend_diff">> }

Emitted(i) == \E k \in 1..Len(out) : out[k].index = df[i].match_id

\* Row i of df has all its difference features.
Complete(i) ==
    LET p1 == LongOf(long_df, df[i].match_id, TRUE)
        p2 == LongOf(long_df, df[i].match_id, FALSE)
    IN  /\ NotNull(df[i].rank_1) /\ NotNull(df[i].rank_2)
        /\ NotNull(df[i].pts_1) /\ NotNull(df[i].pts_2)
        /\ NotNull(df[i].odd_1) /\ NotNull(df[i].odd_2)
        /\ \A c \in HistoryColumns \cup TrendColumns : NotNull(p1[c[1]]) /\ NotNull(p2[c[1]])

\* C4: a row is emitted exactly when all its difference features are there, in df order.
DropPolicy ==
    pc = "done" =>
        /\ \A i \in 1..Len(df) : Emitted(i) <=> Complete(i)
        /\ \A k \in 1..Len(out) :
              LET p1 == LongOf(long_df, out[k].index, TRUE)
                  p2 == LongOf(long_df, out[k].index, FALSE)
              IN  /\ \A c \in HistoryColumns :
                        out[k].features[c[2]] = Some([minuend |-> p1[c[1]][1], subtrahend |-> p2[c[1]][1]])
                  /\ \A c \in TrendColumns :
                        out[k].features[c[2]] = Some(p1[c[1]][1] - p2[c[1]][1])
        /\ \A k \in 1..(Len(out) - 1) : out[k].index < out[k + 1].index

\* A finished run that emits a row and drops one for its short history.
DropPolicyWitness ==
    /\ pc = "done"
    /\ Len(out) > 0
    /\ \E i \in 1..Len(df) :
          /\ ~Emitted(i)
          /\ NotNull(df[i].rank_diff) /\ NotNull(df[i].pts_diff) /\ NotNull(df[i].odd_diff)
          /\ IsNull(wide[i].form_diff)

-----------------------------------------------------------------------------
(* C5: a run on a table that lacks a column the pipeline requires updates  *)
(* no rating, no rolling history and no head-to-head tally.                *)

AbortBeforeAnyUpdate ==
    ~(InputColumns \subseteq columns) =>
        /\ ratings = EmptyDict
        /\ surface_ratings = EmptyDict
        /\ h2h_wins = EmptyDict
        /\ last_winner = EmptyDict
        /\ long_df = << >>

-----------------------------------------------------------------------------
(* The earlier matches of a row of df *)

\* The rows before row i in which the two players of row i met.
Meetings(i) == { j \in 1..(i - 1) : PlayersOf(df[j]) = PlayersOf(df[i]) }

\* How many of them player p won.
WonBy(i, p) == Cardinality({ j \in Meetings(i) : df[j].winner = p })

LastMeeting(i) == CHOOSE j \in Meetings(i) : \A k \in Meetings(i) : k <= j

\* The rows before row i that player p played on one of the surfaces, oldest
\* first.
PriorMatches(i, p, surfaces) ==
    SelectSeq([j \in 1..(i - 1) |-> j],
              LAMBDA j : p \in PlayersOf(df[j]) /\ df[j].surface \in surfaces)

PlayerAt(i, side) == IF side THEN df[i].player_1 ELSE df[i].player_2

\* Whether the rolling features are computed.
Rolled == pc \in {"aggregate", "dropna", "done"}

-----------------------------------------------------------------------------
(* C6: h2h_advantage of a match is (w12 - w21) / (w12 + w21), w12 and w21  *)
(* the earlier meetings of the two players won by player_1 and by          *)
(* player_2, whichever way round they were listed; it is 0.0 when they     *)
(* never met, 1.0 after a single win of player_1 and 0.0 after one win     *)
(* each.                                                                   *)

HeadToHeadAdvantage ==
    \A i \in 1..Len(h2h_rows) :
        LET w12 == WonBy(i, df[i].player_1)
            w21 == WonBy(i, df[i].player_2)
            adv == h2h_rows[i].h2h_advantage
        IN  /\ adv.den > 0
            /\ w12 + w21 > 0 => adv.num * (w12 + w21) = (w12 - w21) * adv.den
            /\ w12 + w21 = 0 => adv = [num |-> 0, den |-> 1]
            /\ (w12 = 1 /\ w21 = 0) => adv = [num |-> 1, den |-> 1]
            /\ (w12 = 1 /\ w21 = 1) => adv = [num |-> 0, den |-> 1]

\* A match after three meetings, one of them listed the other way round and
\* won by each side.
HeadToHeadWitness ==
    \E i \in 1..Len(h2h_rows) :
        /\ WonBy(i, df[i].player_1) = 2
        /\ WonBy(i, df[i].player_2) = 1
        /\ \E j \in Meetings(i) : df[j].player_1 = df[i].player_2

-----------------------------------------------------------------------------
(* C7: last_winner_indicator of a match is +1 when player_1 won the latest *)
(* earlier meeting of the two, -1 when player_2 won it, 0 when they have   *)
(* not met, whichever way round that meeting was listed; and at every      *)
(* moment the directions stored for (A,B) and (B,A) are negatives of each  *)
(* other.                                                                  *)

LastWinnerDirection ==
    /\ \A i \in 1..Len(h2h_rows) :
          h2h_rows[i].last_winner_indicator =
              IF Meetings(i) = {} THEN 0
              ELSE IF df[LastMeeting(i)].winner = df[i].player_1 THEN 1 ELSE -1
    /\ \A k \in DOMAIN last_winner :
          /\ last_winner[k] \in {1, -1}
          /\ <<k[2], k[1]>> \in DOMAIN last_winner
          /\ last_winner[<<k[2], k[1]>>] = -last_winner[k]

\* A match whose latest earlier meeting was listed the other way round and
\* won by the player now listed second.
LastWinnerWitness ==
    \E i \in 1..Len(h2h_rows) :
        /\ Meetings(i) # {}
        /\ df[LastMeeting(i)].player_1 = df[i].player_2
        /\ df[LastMeeting(i)].winner = df[i].player_2
        /\ h2h_rows[i].last_winner_indicator = -1

-----------------------------------------------------------------------------
(* C8: an iteration of compute_elo on a match of a later year than the     *)
(* match before it pulls every known rating and surface rating, of the     *)
(* players of the match and of all the others, toward 1500 once, with the  *)
(* year gap as exponent, and reads the ratings of the match after that; an *)
(* iteration on a match of the same year decays nothing, and no other step *)
(* touches a rating.                                                       *)

AnnualDecay ==
    [][IF pc = "elo" /\ Len(elo_rows') = Len(elo_rows) + 1
       THEN LET row == df[Len(elo_rows) + 1]
                year == row.date.year
                gap == IF NotNull(last_year) /\ year > last_year[1] THEN year - last_year[1] ELSE 0
                surface == SurfaceOf(row, columns)
                Pulled(r) == IF gap > 0 THEN Decayed(r, gap) ELSE r
                Known(d, k) == IF k \in DOMAIN d THEN Pulled(d[k]) ELSE Base
                read == elo_rows'[Len(elo_rows')]
            IN  /\ \A p \in DOMAIN ratings :
                      p \notin PlayersOf(row) => ratings'[p] = Pulled(ratings[p])
                /\ \A k \in DOMAIN surface_ratings :
                      ~(k[1] \in PlayersOf(row) /\ k[2] = surface)
                          => surface_ratings'[k] = Pulled(surface_ratings[k])
                /\ read.elo_p1 = Known(ratings, row.player_1)
                /\ read.elo_p2 = Known(ratings, row.player_2)
                /\ read.surface_elo_p1 = Known(surface_ratings, <<row.player_1, surface>>)
                /\ read.surface_elo_p2 = Known(surface_ratings, <<row.player_2, surface>>)
       ELSE ratings' = ratings /\ surface_ratings' = surface_ratings]_vars

\* A rating of a player who sat out a match two years after the one before,
\* and a surface rating of a player of that match on another surface.
AnnualDecayWitness ==
    /\ pc = "elo"
    /\ Len(elo_rows) > 0
    /\ \E p \in DOMAIN ratings :
          /\ p \notin PlayersOf(df[Len(elo_rows)])
          /\ ratings[p].op = "decay"
          /\ ratings[p].gap = 2
    /\ \E k \in DOMAIN surface_ratings :
          /\ k[1] \in PlayersOf(df[Len(elo_rows)])
          /\ surface_ratings[k].op = "decay"
          /\ surface_ratings[k].gap = 2

-----------------------------------------------------------------------------
(* C9: form_win_rate of a player with n earlier matches is null when       *)
(* n < 3 and else the mean of the outcomes of the last min(n, 10) of them; *)
(* surface_form_win_rate is the same over the earlier matches on the       *)
(* surface of the match, with window 6 and minimum 2.  The windows are     *)
(* those of the default configuration; a run configured otherwise uses its *)
(* own.                                                                    *)

\* Whether cell is the win rate of p over the last `window` matches of
\* prior, null below `minimum` matches.
IsWinRate(cell, prior, p, window, minimum) ==
    LET n == Len(prior)
        m == Min(n, window)
        wins == Cardinality({ k \in (n - m + 1)..n : df[prior[k]].winner = p })
    IN  IF n < minimum THEN cell = NaN
        ELSE /\ cell # NaN
             /\ cell[1].den > 0
             /\ cell[1].num * m = wins * cell[1].den

\* C9: the form cells are the win rates over the last windows of earlier matches.
FormWindows ==
    Rolled =>
        LET form == IF config = DefaultConfig THEN 10 ELSE config.rolling_matches
            surface_form == IF config = DefaultConfig THEN 6 ELSE config.rolling_surface_matches
        IN  \A i \in 1..Len(df) : \A side \in BOOLEAN :
                LET p == PlayerAt(i, side)
                    l == LongOf(long_df, df[i].match_id, side)
                IN  /\ IsWinRate(l.form_win_rate, PriorMatches(i, p, Surfaces), p, form, 3)
                    /\ IsWinRate(l.surface_form_win_rate,
                                 PriorMatches(i, p, {df[i].surface}), p, surface_form, 2)

\* A default run with a player at her twelfth match, and a player at exactly
\* the minimum count.
FormWindowsWitness ==
    /\ Rolled
    /\ config = DefaultConfig
    /\ \E i \in 1..Len(df) : \E side \in BOOLEAN :
          /\ Len(PriorMatches(i, PlayerAt(i, side), Surfaces)) = 11
          /\ NotNull(LongOf(long_df, df[i].match_id, side).form_win_rate)
    /\ \E i \in 1..Len(df) : \E side \in BOOLEAN :
          /\ Len(PriorMatches(i, PlayerAt(i, side), Surfaces)) = 3
          /\ NotNull(LongOf(long_df, df[i].match_id, side).form_win_rate)

-----------------------------------------------------------------------------
(* C10: rank_trend and points_trend. *)

RankAt(j, p) == IF df[j].player_1 = p THEN df[j].rank_1 ELSE df[j].rank_2

PointsAt(j, p) == IF df[j].player_1 = p THEN df[j].pts_1 ELSE df[j].pts_2

\* The value `newer` matches ago minus the value `older` matches ago, null
\* when there are fewer than `older` matches or one of the values is missing.
Change(values, newer, older) ==
    LET n == Len(values)
    IN  IF n < older THEN NaN
        ELSE IF IsNull(values[n - newer + 1]) \/ IsNull(values[n - older + 1]) THEN NaN
        ELSE Some(values[n - newer + 1][1] - values[n - older + 1][1])

TrendIs(newer, older) ==
    Rolled =>
        \A i \in 1..Len(df) : \A side \in BOOLEAN :
            LET p == PlayerAt(i, side)
                prior == PriorMatches(i, p, Surfaces)
                l == LongOf(long_df, df[i].match_id, side)
            IN  /\ l.rank_trend = Change([k \in 1..Len(prior) |-> RankAt(prior[k], p)], newer, older)
                /\ l.points_trend = Change([k \in 1..Len(prior) |-> PointsAt(prior[k], p)], newer, older)

\* C10 (as stated): the trends are the value two matches ago minus the value
\* three matches ago, null when the player has fewer than three earlier
\* matches.
\* C10 (as stated): the trend is the value two matches ago less that three matches ago.
TrendOfTwoAndThreeAgo == TrendIs(2, 3)

\* C10 (amended): the trends are the value at the previous match minus the
\* value at the match before it, null when the player has fewer than two
\* earlier matches or one of the two values is missing.
\* C10 (as the code has it): the trend is the value of the last match less that of the one before.
TrendOfLastTwo == TrendIs(1, 2)

\* A player with exactly two earlier matches and a trend.
TrendWitness ==
    /\ Rolled
    /\ \E i \in 1..Len(df) :
          /\ Len(PriorMatches(i, df[i].player_1, Surfaces)) = 2
          /\ NotNull(LongOf(long_df, df[i].match_id, TRUE).rank_trend)
          /\ LongOf(long_df, df[i].match_id, TRUE).rank_trend # Some(0)

-----------------------------------------------------------------------------
(* C11: rest_days of a player at a match is the number of days from the    *)
(* player's previous match to this one, clamped to [0, 60], and 30 when    *)
(* the player has no previous match; it is never null and always in        *)
(* [0, 60].                                                                *)

\* The days from the latest earlier match of p to row i.
DaysSince(i, p) ==
    LET prior == PriorMatches(i, p, Surfaces)
    IN  Ordinal(df[i].date) - Ordinal(df[prior[Len(prior)]].date)

\* C11: rest_days is the days since the player's previous match clamped to 0..60, 30 at a first match, never null.
RestDaysClamped ==
    Rolled =>
        \A i \in 1..Len(df) : \A side \in BOOLEAN :
            LET p == PlayerAt(i, side)
                rest == LongOf(long_df, df[i].match_id, side).rest_days
            IN  /\ NotNull(rest)
                /\ rest[1] >= 0 /\ rest[1] <= 60
                /\ rest[1] = IF PriorMatches(i, p, Surfaces) = << >> THEN 30
                             ELSE IF DaysSince(i, p) > 60 THEN 60
                             ELSE IF DaysSince(i, p) < 0 THEN 0
                             ELSE DaysSince(i, p)

\* A player back after more than sixty days, a player back within sixty, a
\* player back on the same day, and a player at a first match.
RestDaysWitness ==
    /\ Rolled
    /\ \E i \in 1..Len(df) : \E side \in BOOLEAN :
          /\ PriorMatches(i, PlayerAt(i, side), Surfaces) # << >>
          /\ DaysSince(i, PlayerAt(i, side)) > 60
          /\ LongOf(long_df, df[i].match_id, side).rest_days = Some(60)
    /\ \E i \in 1..Len(df) : \E side \in BOOLEAN :
          /\ PriorMatches(i, PlayerAt(i, side), Surfaces) # << >>
          /\ DaysSince(i, PlayerAt(i, side)) = 0
    /\ \E i \in 1..Len(df) : \E side \in BOOLEAN :
          /\ PriorMatches(i, PlayerAt(i, side), Surfaces) = << >>
          /\ LongOf(long_df, df[i].match_id, side).rest_days = Some(30)

-----------------------------------------------------------------------------
(* C13: parse_score gives five zeros for a token of a walkover or of a     *)
(* retirement and for an absent token; for any other token it gives the    *)
(* games of each side summed over the sets, the sets in which each side    *)
(* has strictly more games, and the sets in which a side has 7 games or    *)
(* more.                                                                   *)

RECURSIVE Tally(_)
Tally(sets) ==
    IF sets = << >> THEN [games_1 |-> 0, games_2 |-> 0, sets_1 |-> 0, sets_2 |-> 0, tie_breaks |-> 0]
    ELSE LET rest == Tally(Tail(sets))
             set == Head(sets)
         IN  [games_1 |-> rest.games_1 + set.left,
              games_2 |-> rest.games_2 + set.right,
              sets_1 |-> rest.sets_1 + (IF set.left > set.right THEN 1 ELSE 0),
              sets_2 |-> rest.sets_2 + (IF set.right > set.left THEN 1 ELSE 0),
              tie_breaks |-> rest.tie_breaks + (IF set.left >= 7 \/ set.right >= 7 THEN 1 ELSE 0)]

\* What add_score_features stored for row i of df.
Parsed(i) ==
    [games_1 |-> df[i].p1_games_won, games_2 |-> df[i].p2_games_won,
     sets_1 |-> df[i].p1_sets_won, sets_2 |-> df[i].p2_sets_won,
     tie_breaks |-> df[i].tie_breaks_played]

\* Whether the scores of df are parsed.
Scored == pc \in {"elo", "h2h", "expand_long", "rolling", "aggregate", "dropna", "done"}

\* C13: a walkover, retirement, empty or absent token gives zeros; any other token gives the tallies of its sets.
ScoreDecoded ==
    (Scored /\ Len(df) = 1) =>
        /\ df[1].score = NoText => Parsed(1) = Tally(<< >>)
        /\ \A sets \in SetLists : \A ending \in Endings :
              df[1].score = Render(sets, ending) =>
                  Parsed(1) = IF ending.kind = "played" THEN Tally(sets) ELSE Tally(<< >>)

-----------------------------------------------------------------------------
(* C12: the global update is not zero-sum.  The amounts added to the two   *)
(* ratings sum to something else than zero exactly when player_2 won and   *)
(* the two expectations, expected and 1.0 - expected as the code computes  *)
(* it, do not sum to 1; and there are updates where they do not.           *)

\* The sum of the two amounts of a finished update.
AmountSum == ExactAdd(elo_update[1].amount_1[1], elo_update[1].amount_2[1])

\* The sum of the two expectations of the update.
ExpectationSum == ExactAdd(elo_update[1].expected, FloatSub(One, elo_update[1].expected))

\* C12: the two amounts of an update do not cancel exactly when player_2 won and the two expectations do not sum to 1.
NotZeroSum ==
    pc = "updated" =>
        (AmountSum # Zero <=> (elo_update[1].outcome = Zero /\ ExpectationSum # One))

\* An update whose amounts do not cancel.
NotZeroSumWitness == pc = "updated" /\ AmountSum # Zero

-----------------------------------------------------------------------------
(* C14: the reads of lines 158-159 for the next match of the loop.         *)

\* The iteration of compute_elo that is about to run.
Reading == pc = "elo" /\ Len(elo_rows) < Len(df)

NextIteration ==
    EloIteration([ratings |-> ratings, surface_ratings |-> surface_ratings,
                  last_year |-> last_year],
                 df[Len(elo_rows) + 1], columns)

NextKeys ==
    LET row == df[Len(elo_rows) + 1]
    IN  [ratings |-> {row.player_1, row.player_2},
         surface_ratings |-> {<<row.player_1, SurfaceOf(row, columns)>>,
                              <<row.player_2, SurfaceOf(row, columns)>>}]

\* What is read for a player or (player, surface) that has not appeared is
\* the baseline.
BaselineRead ==
    LET row == df[Len(elo_rows) + 1]
        read == NextIteration.read
        surface == SurfaceOf(row, columns)
    IN  /\ row.player_1 \notin DOMAIN ratings => read.elo_p1 = Base
        /\ row.player_2 \notin DOMAIN ratings => read.elo_p2 = Base
        /\ <<row.player_1, surface>> \notin DOMAIN surface_ratings => read.surface_elo_p1 = Base
        /\ <<row.player_2, surface>> \notin DOMAIN surface_ratings => read.surface_elo_p2 = Base

\* C14 (as stated): a read of a player or (player, surface) that has not
\* appeared returns the baseline and creates no entry: the known players and
\* the known (player, surface) keys are the same after the reads as before.
\* C14 (as stated): a read of an unseen key gives 1500.0 and enters no key.
ReadCreatesNoEntry ==
    Reading =>
        /\ BaselineRead
        /\ DOMAIN NextIteration.after_read.ratings = DOMAIN ratings
        /\ DOMAIN NextIteration.after_read.surface_ratings = DOMAIN surface_ratings

\* C14 (amended): a read of a player or (player, surface) that has not
\* appeared returns the baseline and enters the key with the baseline: after
\* the reads the known keys are those before and those read.
\* C14 (as the code has it): a read of an unseen key gives 1500.0 and enters the key.
ReadCreatesEntry ==
    Reading =>
        LET after == NextIteration.after_read
        IN  /\ BaselineRead
            /\ DOMAIN after.ratings = DOMAIN ratings \cup NextKeys.ratings
            /\ DOMAIN after.surface_ratings = DOMAIN surface_ratings \cup NextKeys.surface_ratings
            /\ \A p \in NextKeys.ratings \ DOMAIN ratings : after.ratings[p] = Base
            /\ \A k \in NextKeys.surface_ratings \ DOMAIN surface_ratings :
                  after.surface_ratings[k] = Base

\* A player known on another surface only, about to meet a player not known
\* at all.
ReadWitness ==
    /\ Reading
    /\ ratings # EmptyDict
    /\ \E p \in NextKeys.ratings : p \notin DOMAIN ratings
    /\ \E k \in NextKeys.surface_ratings :
          k[1] \in DOMAIN ratings /\ k \notin DOMAIN surface_ratings

-----------------------------------------------------------------------------
(* C15: the passes on the matches of df in another order *)

\* The rows in the order `order` (a permutation of their places), numbered
\* as preprocess numbers them.
Reordered(rows, order) ==
    SubSeq([k \in 1..Len(rows) |-> With(rows[order[k]], [match_id |-> k - 1])], 1, Len(rows))

\* An order that puts a match before a match of an earlier date.
NotChronological(rows, order) ==
    \E j, k \in 1..Len(rows) :
        j < k /\ Ordinal(rows[order[j]].date) > Ordinal(rows[order[k]].date)

\* Whether the passes on that order give every match what the run computed.
SameFeatures(order) ==
    LET p == Passes(Reordered(df, order), columns, config)
    IN  \A k \in 1..Len(df) : p[k] = Computed(order[k])

\* The order with the matches at i and i + 1 swapped.
SwapAt(n, i) == [k \in 1..n |-> IF k = i THEN i + 1 ELSE IF k = i + 1 THEN i ELSE k]

\* Adjacent matches of one year with no player in common.
Independent(i) ==
    /\ PlayersOf(df[i]) \cap PlayersOf(df[i + 1]) = {}
    /\ df[i].date.year = df[i + 1].date.year

\* C15 (as stated): every order of the matches that is not chronological
\* changes some feature value of some match.
\* C15 (as stated): every order that is not chronological changes some feature value.
OrderingSensitivity ==
    (pc = "done" /\ Len(df) <= MaxMatches) =>
        \A order \in Permutations(1..Len(df)) :
            NotChronological(df, order) => ~SameFeatures(order)

\* C15 (amended): an order need not change anything: swapping two adjacent
\* matches of one year that have no player in common leaves every feature
\* value of every match as it was.
\* C15 (as the code has it): exchanging two neighbouring matches of one year with no common player changes no feature.
IndependentSwap ==
    pc = "done" =>
        \A i \in 1..(Len(df) - 1) : Independent(i) => SameFeatures(SwapAt(Len(df), i))

\* Two such matches of different dates, followed by a later match.
IndependentSwapWitness ==
    /\ pc = "done"
    /\ \E i \in 1..(Len(df) - 2) :
          /\ Independent(i)
          /\ NotChronological(df, SwapAt(Len(df), i))


-----------------------------------------------------------------------------
(* C16: the three passes against one loop.  The single loop keeps the      *)
(* rating state, the head-to-head state and every player's earlier long    *)
(* rows; for each match in df order it first reads the snapshot of the     *)
(* three and only then applies the match to the three.  When the run is    *)
(* done, what the three separate passes computed for every match is what   *)
(* the single loop reads for it.                                           *)

\* The last n entries of a history.
LastOf(h, n) == SubSeq(h, Max(1, Len(h) - n + 1), Len(h))

\* The mean of a column over the last `window` entries, null under `minimum`.
MeanOfLast(h, col, window, minimum) ==
    LET recent == LastOf(h, window)
    IN  IF Len(recent) >= minimum /\ Len(recent) > 0
        THEN Some(Quotient(SumSeq([k \in 1..Len(recent) |-> recent[k][col]]), Len(recent)))
        ELSE NaN

\* The newest entry of a column less the one before it.
StepOfLast(h, col) ==
    IF Len(h) >= 2 THEN SubInt(h[Len(h)][col], h[Len(h) - 1][col]) ELSE NaN

\* What the single loop reads of a player's history h for a match.
HistoryRead(h, date, surface, cfg) ==
    LET same == SelectSeq(h, LAMBDA e : e.surface = surface)
    IN  [form_win_rate |-> MeanOfLast(h, "won", cfg.rolling_matches, 3),
         surface_form_win_rate |-> MeanOfLast(same, "won", cfg.rolling_surface_matches, 2),
         games_delta_avg |-> MeanOfLast(h, "games_delta_signed", cfg.rolling_matches, 3),
         sets_delta_avg |-> MeanOfLast(h, "sets_delta_signed", cfg.rolling_matches, 3),
         tiebreak_rate |-> MeanOfLast(h, "tie_breaks_played", cfg.rolling_matches, 3),
         rest_days |->
            Some(IF h = << >> THEN 30
                 ELSE Max(0, Min(60, Ordinal(date) - Ordinal(h[Len(h)].date)))),
         rank_trend |-> StepOfLast(h, "player_rank"),
         points_trend |-> StepOfLast(h, "player_pts")]

\* The single loop over the rows: the snapshots read, match by match.
RECURSIVE SingleLoop(_, _, _)
SingleLoop(rows, cols, cfg) ==
    IF rows = << >>
    THEN [ratings |-> EmptyDict, surface_ratings |-> EmptyDict, last_year |-> NaN,
          h2h_wins |-> EmptyDict, last_winner |-> EmptyDict,
          history |-> [p \in Players |-> << >>], rows |-> << >>]
    ELSE LET st == SingleLoop(SubSeq(rows, 1, Len(rows) - 1), cols, cfg)
             row == rows[Len(rows)]
             elo == EloIteration(st, row, cols)
             h2h == H2HIteration(st, row)
             first == LongRow(row, 1)
             second == LongRow(row, 2)
             read == [elo |-> elo.read,
                      h2h |-> h2h.read,
                      wide |-> WideRow(HistoryRead(st.history[row.player_1], row.date, row.surface, cfg),
                                       HistoryRead(st.history[row.player_2], row.date, row.surface, cfg))]
         IN  [ratings |-> elo.ratings, surface_ratings |-> elo.surface_ratings,
              last_year |-> elo.last_year,
              h2h_wins |-> h2h.h2h_wins, last_winner |-> h2h.last_winner,
              history |-> [p \in Players |->
                              IF p = row.player_1 THEN Append(st.history[p], first)
                              ELSE IF p = row.player_2 THEN Append(st.history[p], second)
                              ELSE st.history[p]],
              rows |-> Append(st.rows, read)]

\* C16: the three passes give every match the snapshot the single loop reads and leave the state it leaves.
PassesAsSingleLoop ==
    pc = "done" =>
        LET loop == SingleLoop(df, columns, config)
        IN  /\ \A i \in 1..Len(df) : Computed(i) = loop.rows[i]
            /\ loop.ratings = ratings
            /\ loop.surface_ratings = surface_ratings
            /\ loop.h2h_wins = h2h_wins
            /\ loop.last_winner = last_winner

\* A run is done in which a player had the other side of an earlier match
\* and a form to read, and an earlier meeting and a decay were on record.
PassesAsSingleLoopWitness ==
    /\ pc = "done"
    /\ Len(df) >= 4
    /\ \E i \in 1..Len(df) :
          /\ NotNull(wide[i].form_diff)
          /\ NotNull(wide[i].rank_trend_diff)
          /\ h2h_rows[i].last_winner_indicator # 0
          /\ \E j \in 1..(i - 1) : df[j].player_2 = df[i].player_1
          /\ \E j \in 1..(i - 1) : df[j].player_1 = df[i].player_1

-----------------------------------------------------------------------------
(* C17: the entries a rating update writes.  An iteration of compute_elo   *)
(* on a match of two distinct players p1 and p2 on surface S writes the    *)
(* rating of p1, the rating of p2, the surface rating of (p1, S) and the   *)
(* surface rating of (p2, S), each with its own new value; every other     *)
(* entry of the two dicts is there before and keeps its value, but for the *)
(* decay of the year change.                                               *)

\* The value of an entry after the decay (if any) of the iteration on a row
\* of the given year.
AfterDecay(r, year) ==
    IF YearGap(last_year, year) > 0 THEN Decayed(r, YearGap(last_year, year)) ELSE r

FourEntriesWritten ==
    (pc = "elo" /\ Len(elo_rows') = Len(elo_rows) + 1) =>
        LET row == df[Len(elo_rows) + 1]
            p1 == row.player_1
            p2 == row.player_2
            S == SurfaceOf(row, columns)
            read == elo_rows'[Len(elo_rows')]
            outcome == IF row.winner = p1 THEN 1 ELSE 0
        IN  p1 # p2 =>
              /\ DOMAIN ratings' = DOMAIN ratings \cup {p1, p2}
              /\ DOMAIN surface_ratings' = DOMAIN surface_ratings \cup {<<p1, S>>, <<p2, S>>}
              /\ \A k \in DOMAIN ratings' \ {p1, p2} :
                    k \in DOMAIN ratings /\ ratings'[k] = AfterDecay(ratings[k], row.date.year)
              /\ \A k \in DOMAIN surface_ratings' \ {<<p1, S>>, <<p2, S>>} :
                    /\ k \in DOMAIN surface_ratings
                    /\ surface_ratings'[k] = AfterDecay(surface_ratings[k], row.date.year)
              /\ ratings'[p1] =
                    NewRating1("elo_k", outcome, Expected(read.elo_p1, read.elo_p2))
              /\ ratings'[p2] =
                    NewRating2("elo_k", outcome, Expected(read.elo_p1, read.elo_p2))
              /\ surface_ratings'[<<p1, S>>] =
                    NewRating1("surface_elo_k", outcome,
                               Expected(read.surface_elo_p1, read.surface_elo_p2))
              /\ surface_ratings'[<<p2, S>>] =
                    NewRating2("surface_elo_k", outcome,
                               Expected(read.surface_elo_p1, read.surface_elo_p2))
              /\ ratings'[p1] # read.elo_p1
              /\ ratings'[p2] # read.elo_p2
              /\ surface_ratings'[<<p1, S>>] # read.surface_elo_p1
              /\ surface_ratings'[<<p2, S>>] # read.surface_elo_p2

\* C17: every iteration of compute_elo on two distinct players writes exactly the four entries.
ExactlyFourEntries == [][FourEntriesWritten]_vars

\* The loop of compute_elo has just applied a match of two distinct players
\* while a third player's rating, decayed by that iteration, and a rating of
\* one of the two on another surface were on record.
ExactlyFourEntriesWitness ==
    /\ pc = "elo"
    /\ Len(elo_rows) >= 2
    /\ LET row == df[Len(elo_rows)]
       IN  /\ row.player_1 # row.player_2
           /\ \E k \in DOMAIN ratings \ PlayersOf(row) : ratings[k].op = "decay"
           /\ \E k \in DOMAIN surface_ratings :
                 /\ k[1] \in PlayersOf(row)
                 /\ k[2] # SurfaceOf(row, columns)
                 /\ surface_ratings[k].op = "decay"

-----------------------------------------------------------------------------
(* C18: a dropped row still advances the state.  Every input row with both *)
(* players, a date and a year from min_year on is processed by the passes, *)
(* emitted or not.  When row i is not emitted and row j is the next match  *)
(* of one of its players p, then the rating of p read at j is (but for     *)
(* decay) the rating row i wrote for p, the rest days of p at j count from *)
(* the date of row i, the form of p at j (when there is one) counts the    *)
(* outcome of row i, and if j is a meeting of the same two players its     *)
(* last-winner indicator and advantage count row i.                        *)

\* The rating under the decays applied to it.
RECURSIVE Undecayed(_)
Undecayed(r) == IF r.op = "decay" THEN Undecayed(r.r) ELSE r

\* The rating row i wrote for its player p.
RatingWritten(i, p) ==
    LET outcome == IF df[i].winner = df[i].player_1 THEN 1 ELSE 0
        expected == Expected(elo_rows[i].elo_p1, elo_rows[i].elo_p2)
    IN  IF p = df[i].player_1 THEN NewRating1("elo_k", outcome, expected)
        ELSE NewRating2("elo_k", outcome, expected)

\* The rating read for the player on the given side of row j.
RatingRead(j, side) == IF side THEN elo_rows[j].elo_p1 ELSE elo_rows[j].elo_p2

\* Row i is the latest match of p before row j.
LatestBefore(i, j, p) ==
    /\ i < j
    /\ p \in PlayersOf(df[i])
    /\ \A k \in (i + 1)..(j - 1) : p \notin PlayersOf(df[k])

\* C18: a row that is not emitted has advanced the ratings, the histories and the head-to-head state read by the next match.
DroppedRowsAdvanceState ==
    pc = "done" =>
        /\ Len(df) = Len(SelectSeq(raw, LAMBDA r :
                            /\ r.player_1 # NoPlayer /\ r.player_2 # NoPlayer
                            /\ r.date # NaT /\ r.date.year >= config.min_year))
        /\ \A i \in 1..Len(df) : \A j \in 1..Len(df) : \A side \in BOOLEAN :
              LET p == PlayerAt(j, side)
                  long == LongOf(long_df, df[j].match_id, side)
                  prior == PriorMatches(j, p, Surfaces)
                  recent == LastOf(prior, config.rolling_matches)
              IN  (~Emitted(i) /\ LatestBefore(i, j, p)) =>
                    /\ Undecayed(RatingRead(j, side)) = RatingWritten(i, p)
                    /\ long.rest_days = Some(Max(0, Min(60, Ordinal(df[j].date) - Ordinal(df[i].date))))
                    /\ recent[Len(recent)] = i
                    /\ NotNull(long.form_win_rate) =>
                          long.form_win_rate =
                              Some(Quotient(Cardinality({ k \in Range(recent) : df[k].winner = p }),
                                            Len(recent)))
                    /\ PlayersOf(df[i]) = PlayersOf(df[j]) =>
                          /\ i \in Meetings(j)
                          /\ h2h_rows[j].last_winner_indicator =
                                IF (df[i].winner = df[i].player_1) <=> (df[i].player_1 = df[j].player_1)
                                THEN 1 ELSE -1
                          /\ h2h_rows[j].h2h_advantage =
                                LET total == Cardinality(Meetings(j))
                                    wins == Cardinality({ k \in Meetings(j) :
                                                (df[k].winner = df[k].player_1)
                                                    <=> (df[k].player_1 = df[j].player_1) })
                                IN  Quotient(wins - (total - wins), total)

\* A finished run that drops the latest earlier match of a player of an
\* emitted row, a meeting of the same two players.
DroppedRowsWitness ==
    /\ pc = "done"
    /\ \E i \in 1..Len(df) : \E j \in 1..Len(df) : \E side \in BOOLEAN :
          /\ ~Emitted(i)
          /\ Emitted(j)
          /\ LatestBefore(i, j, PlayerAt(j, side))
          /\ PlayersOf(df[i]) = PlayersOf(df[j])
          /\ NotNull(LongOf(long_df, df[j].match_id, side).form_win_rate)

-----------------------------------------------------------------------------
(* C19: one winner in every engine.  When the run is done, every match of  *)
(* df has one of its two players who is the one whose rating the update    *)
(* moved up, the one whose head-to-head counter over the other was         *)
(* incremented, and the only one whose long row has won = 1; whatever the  *)
(* winner cell holds.                                                      *)

\* The player whose rating the update of row i moved up: outcome - expected
\* is positive for player_1 when outcome is 1, (1 - outcome) - (1 - expected)
\* is positive for player_2 when outcome is 0.
RatingCredited(i) ==
    LET after == compute_elo(SubSeq(df, 1, i), columns).ratings
    IN  { p \in PlayersOf(df[i]) :
            \/ after[p].op = "player_1" /\ after[p].outcome = 1
            \/ after[p].op = "player_2" /\ after[p].outcome = 0 }

\* The players whose counter of wins over the other the loop incremented at
\* row i.
CounterCredited(i) ==
    LET before == compute_head_to_head(SubSeq(df, 1, i - 1)).h2h_wins
        after == compute_head_to_head(SubSeq(df, 1, i)).h2h_wins
    IN  { p \in PlayersOf(df[i]) :
            \E q \in PlayersOf(df[i]) \ {p} : after[<<p, q>>] = Get(before, <<p, q>>, 0) + 1 }

\* The players whose long row of row i has won = 1.
HistoryCredited(i) ==
    { LongOf(long_df, df[i].match_id, side).player :
        side \in { s \in BOOLEAN : LongOf(long_df, df[i].match_id, s).won = 1 } }

\* C19: in every match the three engines credit one and the same of its two players.
OneWinnerInEveryEngine ==
    pc = "done" =>
        \A i \in 1..Len(df) :
            \E w \in PlayersOf(df[i]) :
                /\ RatingCredited(i) = {w}
                /\ CounterCredited(i) = {w}
                /\ HistoryCredited(i) = {w}

-----------------------------------------------------------------------------
(* C20: a match listed the other way round.  The mirror of a row has       *)
(* player_1 and player_2 exchanged together with their ranks, their points *)
(* and the two numbers of every set of the score; the winner is the same.  *)
(* When a run is done and one row of df is replaced by its mirror, the     *)
(* passes give that row the same values read with the sides exchanged, so  *)
(* elo_diff, surface_elo_diff, form_diff, rest_days_diff, h2h_advantage    *)
(* and last_winner_indicator are negated; they give every other row the    *)
(* same rolling and head-to-head features and leave the same head-to-head  *)
(* state; the ratings they read and leave are those of the run as real     *)
(* numbers.  As floats the ratings after the row and after its mirror are  *)
(* equal when each expectation is the float complement of the other, and   *)
(* need not be equal otherwise.                                            *)

\* The score with the two numbers of every set exchanged.
RECURSIVE MirrorText(_, _)
MirrorText(s, i) ==
    IF i > Len(s) THEN << >>
    ELSE LET j == DigitRunEnd(s, i)
             k == DigitRunEnd(s, j + 1)
         IN  IF j > i /\ j <= Len(s) /\ s[j] = "-" /\ k > j + 1
             THEN SubSeq(s, j + 1, k - 1) \o <<"-">> \o SubSeq(s, i, j - 1) \o MirrorText(s, k)
             ELSE <<s[i]>> \o MirrorText(s, i + 1)

MirrorScore(score) == IF score = NoText THEN NoText ELSE MirrorText(score, 1)

\* The mirror of a row of df, with the columns derived from the exchanged
\* ones derived again.
MirrorRow(row) ==
    LET listed == With(row, [player_1 |-> row.player_2, player_2 |-> row.player_1,
                             rank_1 |-> row.rank_2, rank_2 |-> row.rank_1,
                             pts_1 |-> row.pts_2, pts_2 |-> row.pts_1,
                             score |-> MirrorScore(row.score)])
        derived == With(listed, [rank_diff |-> SubInt(listed.rank_1, listed.rank_2),
                                 pts_diff |-> SubInt(listed.pts_1, listed.pts_2),
                                 y |-> IF listed.winner = listed.player_1 THEN 1 ELSE 0])
    IN  ScoreFeatures(derived)

\* The negative of a difference cell: of a float difference kept as its
\* operands, of an integer, of a fraction.
NegFloat(c) == IF IsNull(c) THEN NaN ELSE Some([minuend |-> c[1].subtrahend, subtrahend |-> c[1].minuend])

NegInt(c) == IF IsNull(c) THEN NaN ELSE Some(-c[1])

NegQuotient(q) == [num |-> -q.num, den |-> q.den]

\* A rating term as the real number it stands for, written with the update
\* of player_1: rb + k * ((1 - o) - (1 - E(ra, rb))) is, over the reals,
\* rb + k * ((1 - o) - E(rb, ra)).
RECURSIVE AsReal(_)
AsReal(r) ==
    IF r.op = "decay" THEN Decayed(AsReal(r.r), r.gap)
    ELSE IF r.op = "player_1"
    THEN NewRating1(r.k, r.outcome, Expected(AsReal(r.expected.a), AsReal(r.expected.b)))
    ELSE IF r.op = "player_2"
    THEN NewRating1(r.k, 1 - r.outcome, Expected(AsReal(r.expected.b), AsReal(r.expected.a)))
    ELSE r

AsReals(d) == [k \in DOMAIN d |-> AsReal(d[k])]

\* The run with row i of df replaced by its mirror.
Mirrored(i) == ReplaceAt(df, i, MirrorRow(df[i]))

MirrorOfRow(i) ==
    LET rows == Mirrored(i)
        passes == Passes(rows, columns, config)
        elo == compute_elo(rows, columns)
        h2h == compute_head_to_head(rows)
        m == passes[i]
        c == Computed(i)
    IN  /\ m.elo = [elo_p1 |-> c.elo.elo_p2, elo_p2 |-> c.elo.elo_p1,
                    surface_elo_p1 |-> c.elo.surface_elo_p2,
                    surface_elo_p2 |-> c.elo.surface_elo_p1]
        /\ EloColumns(m.elo).elo_diff = NegFloat(EloColumns(c.elo).elo_diff)
        /\ EloColumns(m.elo).surface_elo_diff = NegFloat(EloColumns(c.elo).surface_elo_diff)
        /\ m.wide.form_diff = NegFloat(c.wide.form_diff)
        /\ m.wide.rest_days_diff = NegInt(c.wide.rest_days_diff)
        /\ m.h2h.h2h_advantage = NegQuotient(c.h2h.h2h_advantage)
        /\ m.h2h.last_winner_indicator = -c.h2h.last_winner_indicator
        /\ \A j \in 1..Len(df) \ {i} :
              /\ passes[j].wide = Computed(j).wide
              /\ passes[j].h2h = Computed(j).h2h
              /\ j < i => passes[j].elo = Computed(j).elo
              /\ [f \in DOMAIN passes[j].elo |-> AsReal(passes[j].elo[f])]
                    = [f \in DOMAIN elo_rows[j] |-> AsReal(elo_rows[j][f])]
        /\ h2h.h2h_wins = h2h_wins
        /\ h2h.last_winner = last_winner
        /\ AsReals(elo.ratings) = AsReals(ratings)
        /\ AsReals(elo.surface_ratings) = AsReals(surface_ratings)

\* The ratings after the row as listed and after its mirror are the same
\* floats.
SameRatings ==
    /\ elo_update[1].as_listed[1].a = elo_update[1].mirrored[1].a
    /\ elo_update[1].as_listed[1].b = elo_update[1].mirrored[1].b

\* Each expectation is the float complement of the other.
Complements ==
    /\ FloatSub(One, elo_update[1].as_listed[1].expected) = elo_update[1].mirrored[1].expected
    /\ FloatSub(One, elo_update[1].mirrored[1].expected) = elo_update[1].as_listed[1].expected

\* C20 as stated: the difference features of the row are negated, and the
\* state after the row and the features of the other rows are unchanged.
\* C20 (as stated): the mirror negates the difference features and leaves the state and the other rows unchanged.
MirrorAntisymmetry ==
    /\ (pc = "done" /\ \A i \in 1..Len(df) : df[i].player_1 # df[i].player_2) =>
          \A i \in 1..Len(df) : MirrorOfRow(i)
    /\ pc = "mirrored" => SameRatings

\* C20 with the ratings equal as real numbers, and as floats when the two
\* expectations are float complements.
\* C20 (as the code has it): the mirror negates the difference features; the ratings are the same up to rounding.
MirrorUpToRounding ==
    /\ (pc = "done" /\ \A i \in 1..Len(df) : df[i].player_1 # df[i].player_2) =>
          \A i \in 1..Len(df) : MirrorOfRow(i)
    /\ (pc = "mirrored" /\ Complements) => SameRatings

\* A finished run in which a row with a form, an earlier meeting and a
\* later meeting of its two players has a mirror.
MirrorWitness ==
    /\ pc = "done"
    /\ \A i \in 1..Len(df) : df[i].player_1 # df[i].player_2
    /\ \E i \in 1..(Len(df) - 1) :
          /\ NotNull(wide[i].form_diff)
          /\ wide[i].form_diff[1].minuend # wide[i].form_diff[1].subtrahend
          /\ h2h_rows[i].h2h_advantage.num # 0
          /\ h2h_rows[i].last_winner_indicator # 0
          /\ wide[i].rest_days_diff \notin {NaN, Some(0)}
          /\ elo_rows[i].elo_p1 # elo_rows[i].elo_p2
          /\ \E j \in (i + 1)..Len(df) : PlayersOf(df[j]) = PlayersOf(df[i])

\* An update that leaves other ratings after the row than after its mirror.
MirrorRoundingSeen == pc = "mirrored" /\ ~SameRatings
=============================================================================
